---- MODULE Spec2Model ----
(***************************************************************************)
(* Model of hifi.rs: the playback queue (queue/mod.rs), the websocket      *)
(* server (websocket.rs), the metadata client (qobuz/client.rs), the UI's  *)
(* List and Table (ui/components/mod.rs) and the player they talk to.      *)
(*                                                                         *)
(* Spec         : a TrackListValue built by new(), driven by its mutators. *)
(* SpecQuery    : the read-only functions applied to every TrackListValue  *)
(*                of the bounded universe.                                 *)
(* SpecHub      : the send tasks beside a player fed by local actions.     *)
(* SpecWs       : handle_connection, its two tasks and their lifecycle.    *)
(* SpecPlayer   : the player applying one action after another.            *)
(* SpecOrder    : actions of several sources on their way to the player.   *)
(* SpecClient   : make_call and the getters against the API's replies.     *)
(* SpecShutdown : the graceful-shutdown future beside the player.          *)
(* SpecHubFair  : one connection coming up beside one that relays, every   *)
(*                send task scheduled.                                     *)
(* SpecDispatch : one connection receiving every Action variant.           *)
(* SpecRt       : two connections, their fetches and their rt channels.    *)
(* SpecStall    : a listener beside a subscriber that has stopped          *)
(*                consuming and whose client goes away.                    *)
(* SpecUi       : a List and a Table and the calls made on them.           *)
(***************************************************************************)
EXTENDS Integers, Sequences, FiniteSets

VARIABLES
    tl,     \* the TrackListValue: [queue, album, playlist, list_type]
    last,   \* the last call made: [op, arguments, result]
    player, \* the player: [status, cur, clock]
    nseq,   \* number of notifications broadcast so far
    conn,   \* the websocket connections: conn[c] = [hc, send, recv, hold, ...]
    pipe,   \* the actions on their way to the player: [inbox, chan, ...]
    srv,    \* the server's graceful-shutdown future: [state, rx]
    ui      \* the terminal UI's components: [list, table]

vars == <<tl, last, player, nseq, conn, pipe, srv, ui>>

\* the variables of the websocket server and of the terminal UI
wsVars == <<player, nseq, conn, pipe, srv, ui>>

----------------------------------------------------------------------------
(* Bounds *)

\* queue positions are 0..MaxPos
MaxPos == 2

\* track ids are 1..MaxTrackId
MaxTrackId == 2

----------------------------------------------------------------------------
(* Values *)

\* Option<T>
None == [some |-> FALSE]
Some(x) == [some |-> TRUE, val |-> x]

\* Result<T, E>
Ok(x) == [ok |-> TRUE, val |-> x]
Err(e) == [ok |-> FALSE, err |-> e]

\* enum TrackStatus
TrackStatus == {"Unplayed", "Playing", "Played"}

\* enum TrackListType
TrackListType == {"Album", "Playlist", "Track", "Unknown"}

Positions == 0..MaxPos
TrackIds == 1..MaxTrackId

\* the album a TrackList is loaded from, and the one tracks carry embedded
\* impl Display for TrackListType
TrackListType_fmt(t) ==
    CASE t = "Album" -> "album"
      [] t = "Playlist" -> "playlist"
      [] t = "Track" -> "track"
      [] t = "Unknown" -> "unknown"

\* as TrackListType_from, the letters' case ignored
TrackListType_from_any_case(tracklist_type) ==
    CASE tracklist_type \in {"album", "Album", "ALBUM"} -> "Album"
      [] tracklist_type \in {"playlist", "Playlist"} -> "Playlist"
      [] tracklist_type \in {"track", "Track"} -> "Track"
      [] OTHER -> "Unknown"

\* impl From<&str> for TrackListType
TrackListType_from(tracklist_type) ==
    CASE tracklist_type = "album" -> "Album"
      [] tracklist_type = "playlist" -> "Playlist"
      [] tracklist_type = "track" -> "Track"
      [] OTHER -> "Unknown"

\* the strings converted to a TrackListType
TypeStrings ==
    {"album", "playlist", "track", "unknown", "Album", "Playlist", "Track",
     "Unknown", "ALBUM", "albums", " album", ""}

ListAlbum == [id |-> 10, total_tracks |-> 12]
EmbeddedAlbum == [id |-> 11, total_tracks |-> 9]
ListPlaylist == [id |-> 20, tracks_count |-> 7]

Albums == {ListAlbum}
Playlists == {ListPlaylist}

\* Track.album is metadata of the track: tracks with an odd id carry their
\* album embedded, tracks with an even id carry none
TrackAlbumOf(id) == IF id % 2 = 1 THEN Some(EmbeddedAlbum) ELSE None

Track(id, status) == [id |-> id, status |-> status, album |-> TrackAlbumOf(id)]

Tracks == {Track(id, s) : id \in TrackIds, s \in TrackStatus}

\* BTreeMap<u32, Track>: a map from a set of positions to tracks
BTreeMaps(T) == UNION {[K -> T] : K \in SUBSET Positions}

EmptyMap == [k \in {} |-> None]

----------------------------------------------------------------------------
(* BTreeMap iteration: ascending key order *)

MinKey(S) == CHOOSE k \in S : \A j \in S : k <= j

RECURSIVE IterFrom(_, _)
IterFrom(q, S) ==
    IF S = {} THEN <<>>
    ELSE LET k == MinKey(S) IN <<<<k, q[k]>>>> \o IterFrom(q, S \ {k})

\* queue.iter(): the (position, track) pairs
BTreeIter(q) == IterFrom(q, DOMAIN q)

\* queue.values(): the tracks
BTreeValues(q) == LET it == BTreeIter(q) IN [i \in 1..Len(it) |-> it[i][2]]

----------------------------------------------------------------------------
(* TrackListValue *)

new_ignores_queue(queue) ==
    [queue |-> EmptyMap, album |-> None, playlist |-> None,
     list_type |-> "Unknown"]

new(queue) ==
    [queue |-> IF queue.some THEN queue.val ELSE EmptyMap,
     album |-> None,
     playlist |-> None,
     list_type |-> "Unknown"]

\* as total, the count taken from the parent that list_type names
total_by_list_type(t) ==
    IF t.list_type = "Playlist" /\ t.playlist.some
    THEN t.playlist.val.tracks_count
    ELSE IF t.album.some THEN t.album.val.total_tracks
    ELSE IF t.playlist.some THEN t.playlist.val.tracks_count
    ELSE Cardinality(DOMAIN t.queue)

total_playlist_first(t) ==
    IF t.playlist.some THEN t.playlist.val.tracks_count
    ELSE IF t.album.some THEN t.album.val.total_tracks
    ELSE Cardinality(DOMAIN t.queue)

total(t) ==
    IF t.album.some THEN t.album.val.total_tracks
    ELSE IF t.playlist.some THEN t.playlist.val.tracks_count
    ELSE Cardinality(DOMAIN t.queue)

clear_keeps_playlist(t) ==
    [queue |-> EmptyMap, album |-> None, playlist |-> t.playlist,
     list_type |-> "Unknown"]

clear(t) ==
    [queue |-> EmptyMap, album |-> None, playlist |-> None,
     list_type |-> "Unknown"]

set_album(t, album) ==
    [t EXCEPT !.album = Some(album), !.list_type = "Album"]

set_playlist_clears_album(t, playlist) ==
    [t EXCEPT !.playlist = Some(playlist), !.album = None,
              !.list_type = "Playlist"]

set_playlist(t, playlist) ==
    [t EXCEPT !.playlist = Some(playlist), !.list_type = "Playlist"]

set_list_type(t, list_type) ==
    [t EXCEPT !.list_type = list_type]

find_track_by_index(t, index) ==
    IF index \in DOMAIN t.queue THEN Some(t.queue[index]) ELSE None

set_track_status_upsert(t, position, status) ==
    IF position \in DOMAIN t.queue
    THEN [t EXCEPT !.queue[position].status = status]
    ELSE [t EXCEPT !.queue =
            [k \in DOMAIN t.queue \cup {position} |->
                IF k = position THEN Track(1, status) ELSE t.queue[k]]]

set_track_status(t, position, status) ==
    IF position \in DOMAIN t.queue
    THEN [t EXCEPT !.queue[position].status = status]
    ELSE t

all_tracks_reversed(t) ==
    LET v == BTreeValues(t.queue) IN [i \in 1..Len(v) |-> v[Len(v) + 1 - i]]

all_tracks(t) == BTreeValues(t.queue)

\* iter().filter_map(..).collect() keeping the tracks with one status
RECURSIVE FilterStatus(_, _)
FilterStatus(it, status) ==
    IF it = <<>> THEN <<>>
    ELSE (IF Head(it)[2].status = status THEN <<Head(it)[2]>> ELSE <<>>)
         \o FilterStatus(Tail(it), status)

unplayed_tracks(t) == FilterStatus(BTreeIter(t.queue), "Unplayed")

\* as played_tracks, with the track that is playing counted as played
played_tracks_with_playing(t) ==
    LET it == BTreeIter(t.queue)
        keep == SelectSeq(it, LAMBDA e : e[2].status # "Unplayed")
    IN [i \in 1..Len(keep) |-> keep[i][2]]

played_tracks(t) == FilterStatus(BTreeIter(t.queue), "Played")

\* the for_each of track_index: every match overwrites index
RECURSIVE TrackIndexScan(_, _, _)
TrackIndexScan(it, track_id, index) ==
    IF it = <<>> THEN index
    ELSE TrackIndexScan(Tail(it), track_id,
            IF Head(it)[2].id = track_id THEN Some(Head(it)[1]) ELSE index)

track_index(t, track_id) == TrackIndexScan(BTreeIter(t.queue), track_id, None)

\* Iterator::find
RECURSIVE FindStatus(_, _)
FindStatus(vals, status) ==
    IF vals = <<>> THEN None
    ELSE IF Head(vals).status = status THEN Some(Head(vals))
    ELSE FindStatus(Tail(vals), status)

current_track_not_unplayed(t) ==
    LET v == BTreeValues(t.queue)
        hit == SelectSeq(v, LAMBDA x : x.status # "Unplayed")
    IN IF hit = <<>> THEN None ELSE Some(Head(hit))

current_track(t) == FindStatus(BTreeValues(t.queue), "Playing")

get_album_list_only(t) == t.album

get_album(t) ==
    LET c == current_track(t) IN
    IF c.some
    THEN IF c.val.album.some THEN c.val.album ELSE t.album
    ELSE t.album

----------------------------------------------------------------------------
(* Wire form (serde_json) *)

JArray(items) == [json |-> "array", items |-> items]
JObject(fields) == [json |-> "object", fields |-> fields]

\* serialize_with = "serialize_btree": the queue goes out as the list of
\* its values
serialize_btree(queue) == JArray(BTreeValues(queue))

\* derive(Serialize) for TrackListValue
Encode(t) ==
    [queue |-> serialize_btree(t.queue),
     album |-> t.album,
     playlist |-> t.playlist,
     list_type |-> t.list_type]

\* derive(Deserialize) for TrackListValue: queue is read as BTreeMap<u32, Track>,
\* which accepts a JSON object and nothing else
Decode(w) ==
    IF w.queue.json = "object"
    THEN Ok([queue |-> w.queue.fields,
             album |-> w.album,
             playlist |-> w.playlist,
             list_type |-> w.list_type])
    ELSE Err("invalid type: sequence, expected a map")

\* the queues handed to new(): tracks as the metadata client delivers them,
\* all Unplayed, the ids cycling through TrackIds along the positions
FreshTrackAt(position) == Track((position % MaxTrackId) + 1, "Unplayed")

FreshQueues == {[k \in K |-> FreshTrackAt(k)] : K \in SUBSET Positions}

----------------------------------------------------------------------------
(* The metadata client, qobuz/client.rs *)

\* a task that panics instead of returning
Panic(msg) == [ok |-> FALSE, panic |-> msg]

IsPanic(r) == "panic" \in DOMAIN r

\* StatusCode values the API answers with
StatusCodes == {200, 400, 401, 403, 404, 500}

\* the endpoints of the calls modelled
Endpoints == {"album/get", "track/get", "playlist/get"}

\* the payloads of the answers
AlbumBody(a) == [json |-> "album", val |-> a]
TrackBody(t) == [json |-> "track", val |-> t]
PlaylistBody(pl) == [json |-> "playlist", val |-> pl]
ErrorBody == [json |-> "error", val |-> [message |-> "rejected"]]

Bodies ==
    {AlbumBody(ListAlbum), TrackBody(Track(1, "Unplayed")),
     PlaylistBody(ListPlaylist), ErrorBody}

\* what one request comes back with: a transport error, or a Response with
\* a status and a text that can or cannot be read
NetError == [net |-> "error", err |-> "connect"]
Response(status, text) == [net |-> "ok", status |-> status, text |-> text]

Replies ==
    {NetError}
    \cup {Response(st, Ok(b)) : st \in StatusCodes, b \in Bodies}
    \cup {Response(st, Err("body")) : st \in StatusCodes}

\* Client::handle_response
handle_response(response) ==
    CASE response.status \in {400, 401, 404} ->
            IF response.text.ok THEN Err(response.text.val)
            ELSE Panic("unwrap")
      [] response.status = 200 ->
            IF response.text.ok THEN Ok(response.text.val)
            ELSE Panic("unwrap")
      [] OTHER -> Panic("unreachable")

\* the texts a client holds as app_id and user_token, as bytes: "1" and "1\n"
HeaderTexts == {<<49>>, <<49, 10>>}

\* HeaderValue::from_str: a text with a control character other than a tab
\* is no header value
HeaderValue_from_str(text) ==
    IF \A i \in 1..Len(text) :
           (text[i] >= 32 /\ text[i] # 127) \/ text[i] = 9
    THEN Ok(text) ELSE Err("InvalidHeaderValue")

\* the fields of Client that make_call reads
Clients ==
    {[app_id |-> a, user_token |-> t] :
        a \in {None} \cup {Some(x) : x \in HeaderTexts},
        t \in {None} \cup {Some(x) : x \in HeaderTexts}}

\* the client of the player after setup
ClientReady == [app_id |-> Some(<<49>>), user_token |-> Some(<<49>>)]

\* the headers of a request: the unwrap of a text that is no header value
\* panics
Headers(self) ==
    LET app == IF self.app_id.some
               THEN HeaderValue_from_str(self.app_id.val) ELSE Ok(<<>>)
        token == IF self.user_token.some
                 THEN HeaderValue_from_str(self.user_token.val) ELSE Ok(<<>>)
    IN IF app.ok /\ token.ok
       THEN Ok([X_App_Id |-> IF self.app_id.some THEN Some(app.val) ELSE None,
                X_User_Auth_Token |->
                    IF self.user_token.some THEN Some(token.val) ELSE None])
       ELSE Panic("unwrap")

\* Client::make_call: replies[i] is what the i-th request would come back
\* with; the result and the number of requests made
make_call(self, endpoint, params, replies) ==
    LET headers == Headers(self)
        response == replies[1]
    IN IF IsPanic(headers) THEN [res |-> headers, requests |-> 0]
       ELSE [res |-> IF response.net = "ok" THEN handle_response(response)
                     ELSE Err(response.err),
             requests |-> 1]

\* serde_json::from_str::<T>(response).unwrap() of the getters
FromStr(kind, body) ==
    IF body.json = kind THEN Some(body.val) ELSE Panic("unwrap")

\* the getter of the client for one kind of payload
Getter(self, endpoint, kind, id, replies) ==
    LET call == make_call(self, endpoint, Some(<<id>>), replies).res
    IN IF call.ok THEN FromStr(kind, call.val)
       ELSE IF IsPanic(call) THEN call
       ELSE None

\* as client_album, with an empty album standing in for the failed call
client_album_default_on_error(self, album_id, replies) ==
    LET r == Getter(self, "album/get", "album", album_id, replies)
    IN IF r = None THEN Some([id |-> album_id, total_tracks |-> 0]) ELSE r

\* Client::album, Client::track, Client::playlist
client_album(self, album_id, replies) ==
    Getter(self, "album/get", "album", album_id, replies)

client_track(self, track_id, replies) ==
    Getter(self, "track/get", "track", track_id, replies)

client_playlist(self, playlist_id, replies) ==
    Getter(self, "playlist/get", "playlist", playlist_id, replies)

----------------------------------------------------------------------------
(* The List and the Table of the terminal UI, ui/components/mod.rs *)

\* a list or a table holds at most MaxItems items
MaxItems == 3

\* Vec<Item>, Vec<Row>: the items by number
ItemLists == {[i \in 1..n |-> i] : n \in 0..MaxItems}

\* the indices select() is called with: those of the items, the one after
\* the last and one far past it
Selections == (0..MaxItems) \cup {2 * MaxItems + 1}

\* the headers and the column widths a table is given
HeaderLists == {<<1>>, <<2, 3>>}

WidthLists == {<<50, 50>>}

\* usize subtraction below zero: a panic in a debug build, a wrap to a huge
\* index in a release build
Underflow == 0 - 1

usize_sub(a, b) == IF a >= b THEN a - b ELSE Underflow

\* List::new; ListState::default() has nothing selected
list_new(items) ==
    IF items.some THEN [items |-> items.val, selected |-> None]
    ELSE [items |-> <<>>, selected |-> None]

\* List::set_items
list_set_items(l, items) ==
    [items |-> items,
     selected |->
         IF l.selected.some
         THEN IF l.selected.val > Len(items) THEN Some(Len(items))
              ELSE Some(l.selected.val)
         ELSE Some(0)]

\* as list_next, going round to the first item after the last
list_next_wraps(l) ==
    [l EXCEPT !.selected =
        IF l.selected.some /\ l.items # <<>>
        THEN Some((l.selected.val + 1) % Len(l.items))
        ELSE Some(0)]

\* List::next
list_next(l) ==
    LET i == IF l.selected.some
             THEN IF l.items = <<>> THEN 0
                  ELSE IF l.selected.val >= usize_sub(Len(l.items), 1)
                       THEN usize_sub(Len(l.items), 1)
                       ELSE l.selected.val + 1
             ELSE 0
    IN [l EXCEPT !.selected = Some(i)]

\* List::previous
list_previous(l) ==
    LET i == IF l.selected.some
             THEN IF l.items = <<>> \/ l.selected.val = 0 THEN 0
                  ELSE usize_sub(l.selected.val, 1)
             ELSE 0
    IN [l EXCEPT !.selected = Some(i)]

\* List::select
list_select(l, num) == [l EXCEPT !.selected = Some(num)]

\* Table::new: the rows are taken when header, items and widths are all given
table_new(header, items, widths) ==
    IF items.some /\ header.some /\ widths.some
    THEN [rows |-> items.val, selected |-> None,
          header |-> header.val, widths |-> widths.val]
    ELSE [rows |-> <<>>, selected |-> None, header |-> <<>>, widths |-> <<>>]

\* Table::set_header
table_set_header(t, header) == [t EXCEPT !.header = header]

\* Table::set_rows
table_set_rows(t, rows) == [t EXCEPT !.rows = rows]

\* Table::set_widths
table_set_widths(t, widths) == [t EXCEPT !.widths = widths]

\* Table::select
table_select(t, num) == [t EXCEPT !.selected = Some(num)]

\* Table::next
table_next(t) ==
    LET i == IF t.selected.some
             THEN IF t.rows = <<>> THEN 0
                  ELSE IF t.selected.val >= usize_sub(Len(t.rows), 1)
                       THEN usize_sub(Len(t.rows), 1)
                       ELSE t.selected.val + 1
             ELSE 0
    IN [t EXCEPT !.selected = Some(i)]

\* Table::previous
table_previous(t) ==
    LET i == IF t.selected.some
             THEN IF t.rows = <<>> \/ t.selected.val = 0 THEN 0
                  ELSE usize_sub(t.selected.val, 1)
             ELSE 0
    IN [t EXCEPT !.selected = Some(i)]

\* the UI is not part of the run
UiIdle == [list |-> list_new(None), table |-> table_new(None, None, None)]

----------------------------------------------------------------------------
(* Player and notification hub, as websocket.rs calls them *)

\* at most MaxEmit notifications are broadcast in a run
MaxEmit == 5

\* a subscriber's buffer holds HubCap notifications
HubCap == 2

\* the websocket connections of a run
Conns == {"c1", "c2"}

\* the fields of a variant of Notification
Payload(kind, val) ==
    CASE kind = "Status" -> [status |-> val]
      [] kind = "Position" -> [clock |-> val]
      [] kind = "CurrentTrackList" -> [list |-> val]
      [] OTHER -> [unit |-> val]

\* enum Notification
Notification(kind, val) == [kind |-> kind, val |-> Payload(kind, val)]

\* enum Action: the variants the local front end issues in the model, and
\* the ones the websocket clients send
LocalActions == {[type |-> "Play"], [type |-> "Pause"]}

ClientActions == {[type |-> "Play"], [type |-> "SkipTo", num |-> MaxPos + 1]}

\* the player after setup: stopped on the first track, no clock yet
PlayerInit == [status |-> "Stopped", cur |-> 0, clock |-> None]

\* the queue the player has loaded
LoadedQueue == [k \in Positions |-> FreshTrackAt(k)]

\* the statuses of the queue once the player is on position num
SkipStatuses(t, num) ==
    [t EXCEPT !.queue =
        [k \in DOMAIN t.queue |->
            [t.queue[k] EXCEPT !.status =
                IF k < num THEN "Played"
                ELSE IF k = num THEN "Playing" ELSE "Unplayed"]]]

\* the answer of the metadata service to a request for id: the payload when
\* it knows the id, 404 otherwise
KnownIds ==
    [album |-> {ListAlbum.id}, track |-> TrackIds,
     playlist |-> {ListPlaylist.id}]

CatalogReply(kind, id) ==
    IF id \in KnownIds[kind]
    THEN Response(200, Ok(CASE kind = "album" -> AlbumBody(ListAlbum)
                            [] kind = "track" -> TrackBody(Track(id, "Unplayed"))
                            [] kind = "playlist" -> PlaylistBody(ListPlaylist)))
    ELSE Response(404, Ok(ErrorBody))

\* the queue a loaded album or playlist brings, its first track playing
FetchedQueue ==
    [k \in 0..(MaxPos - 1) |->
        Track((k % MaxTrackId) + 1, IF k = 0 THEN "Playing" ELSE "Unplayed")]

LastPosition(t) == CHOOSE k \in DOMAIN t.queue : \A j \in DOMAIN t.queue : j <= k

FirstPosition(t) == CHOOSE k \in DOMAIN t.queue : \A j \in DOMAIN t.queue : k <= j

\* the player left as it is
Unchanged(p, t, res) == [player |-> p, tl |-> t, notes |-> <<>>, res |-> res]

\* the player on a freshly loaded TrackList
Loaded(t) ==
    [player |-> [status |-> "Playing", cur |-> 0, clock |-> Some(0)],
     tl |-> t,
     notes |-> <<Notification("CurrentTrackList", t),
                 Notification("Status", "Playing"),
                 Notification("Position", 0)>>,
     res |-> Ok("unit")]

\* player::play
PlayerPlay(p, t) ==
    IF p.status \in {"Stopped", "Paused"}
    THEN LET clock == IF p.clock.some THEN p.clock ELSE Some(0) IN
         [player |-> [p EXCEPT !.status = "Playing", !.clock = clock],
          tl |-> set_track_status(t, p.cur, "Playing"),
          notes |-> <<Notification("Status", "Playing"),
                      Notification("Position", clock.val)>>,
          res |-> Ok("unit")]
    ELSE Unchanged(p, t, Ok("unit"))

\* player::pause
PlayerPause(p, t) ==
    IF p.status = "Playing"
    THEN [player |-> [p EXCEPT !.status = "Paused"],
          tl |-> t,
          notes |-> <<Notification("Status", "Paused")>>,
          res |-> Ok("unit")]
    ELSE Unchanged(p, t, Ok("unit"))

\* player::stop
PlayerStop(p, t) ==
    IF p.status # "Stopped"
    THEN [player |-> [p EXCEPT !.status = "Stopped"],
          tl |-> t,
          notes |-> <<Notification("Status", "Stopped")>>,
          res |-> Ok("unit")]
    ELSE Unchanged(p, t, Ok("unit"))

\* the player moving to position num of the queue
PlayerMoveTo(p, t, num) ==
    LET t2 == SkipStatuses(t, num) IN
    [player |-> [status |-> "Playing", cur |-> num, clock |-> Some(0)],
     tl |-> t2,
     notes |-> <<Notification("CurrentTrackList", t2)>>,
     res |-> Ok("unit")]

\* player::next: past the end the player stops, no track is left Playing
PlayerNext(p, t) ==
    IF DOMAIN t.queue = {} THEN Unchanged(p, t, Ok("unit"))
    ELSE IF p.cur >= LastPosition(t)
    THEN LET t2 == SkipStatuses(t, LastPosition(t) + 1) IN
         [player |-> [p EXCEPT !.status = "Stopped"],
          tl |-> t2,
          notes |-> <<Notification("CurrentTrackList", t2),
                      Notification("Status", "Stopped")>>,
          res |-> Ok("unit")]
    ELSE PlayerMoveTo(p, t, p.cur + 1)

\* player::previous: before the start nothing happens
PlayerPrevious(p, t) ==
    IF DOMAIN t.queue = {} \/ p.cur <= FirstPosition(t)
    THEN Unchanged(p, t, Ok("unit"))
    ELSE PlayerMoveTo(p, t, p.cur - 1)

\* player::skip
PlayerSkip(p, t, num) ==
    IF num \in DOMAIN t.queue THEN PlayerMoveTo(p, t, num)
    ELSE Unchanged(p, t, Err("InvalidTarget"))

\* player::play_album, player::play_track, player::play_playlist: the
\* metadata client is asked first, a fresh TrackList is played if it answers
PlayerPlayAlbum(p, t, album_id) ==
    LET found == client_album(ClientReady, album_id, <<CatalogReply("album", album_id)>>)
    IN IF found = None THEN Unchanged(p, t, Err("NotFound"))
       ELSE Loaded(set_album(new(Some(FetchedQueue)), found.val))

PlayerPlayTrack(p, t, track_id) ==
    LET found == client_track(ClientReady, track_id, <<CatalogReply("track", track_id)>>)
    IN IF found = None THEN Unchanged(p, t, Err("NotFound"))
       ELSE Loaded(set_list_type(
                new(Some([k \in {0} |->
                             [found.val EXCEPT !.status = "Playing"]])),
                "Track"))

PlayerPlayPlaylist(p, t, playlist_id) ==
    LET found == client_playlist(ClientReady, playlist_id,
                                 <<CatalogReply("playlist", playlist_id)>>)
    IN IF found = None THEN Unchanged(p, t, Err("NotFound"))
       ELSE Loaded(set_playlist(new(Some(FetchedQueue)), found.val))

\* the fixed increment of a jump and the duration of a track, in clock units
JumpStep == 1

TrackDuration == 2

\* player::jump_forward, player::jump_backward: a seek inside the current
\* track, clamped to its duration
PlayerJump(p, t, by) ==
    IF p.clock.some
    THEN LET to == p.clock.val + by
             clamped == IF to < 0 THEN 0
                        ELSE IF to > TrackDuration THEN TrackDuration ELSE to
         IN [player |-> [p EXCEPT !.clock = Some(clamped)],
             tl |-> t,
             notes |-> <<Notification("Position", clamped)>>,
             res |-> Ok("unit")]
    ELSE Unchanged(p, t, Ok("unit"))

\* player::play_uri: the uri names an album, a track or a playlist
PlayerPlayUri(p, t, uri) ==
    CASE uri.kind = "album" -> PlayerPlayAlbum(p, t, uri.id)
      [] uri.kind = "track" -> PlayerPlayTrack(p, t, uri.id)
      [] uri.kind = "playlist" -> PlayerPlayPlaylist(p, t, uri.id)
      [] OTHER -> Unchanged(p, t, Err("NotFound"))

\* player::search, player::artist_albums, player::playlist_tracks,
\* player::user_playlists: what the call returns; the player is left alone
PlayerFetch(call) ==
    CASE call.fn = "search" ->
             [of |-> "search", arg |-> [query |-> call.query]]
      [] call.fn = "artist_albums" ->
             [of |-> "artist_albums", arg |-> [artist_id |-> call.artist_id]]
      [] call.fn = "playlist_tracks" ->
             [of |-> "playlist_tracks",
              arg |-> [playlist_id |-> call.playlist_id]]
      [] call.fn = "user_playlists" ->
             [of |-> "user_playlists", arg |-> [user |-> "self"]]

\* player::quit
PlayerQuit(p, t) ==
    [player |-> [p EXCEPT !.status = "Quit"],
     tl |-> t,
     notes |-> <<Notification("Quit", "unit")>>,
     res |-> Ok("unit")]

\* the player running one call: the new player and TrackList, the
\* notifications it broadcasts, in order, and the Result it returns; after
\* Quit nothing is applied any more
PlayerCall(p, t, call) ==
    IF p.status = "Quit" THEN Unchanged(p, t, Ok("unit"))
    ELSE CASE call.fn = "play" -> PlayerPlay(p, t)
           [] call.fn = "pause" -> PlayerPause(p, t)
           [] call.fn = "play_pause" ->
                  IF p.status = "Playing" THEN PlayerPause(p, t)
                  ELSE PlayerPlay(p, t)
           [] call.fn = "next" -> PlayerNext(p, t)
           [] call.fn = "previous" -> PlayerPrevious(p, t)
           [] call.fn = "stop" -> PlayerStop(p, t)
           [] call.fn = "quit" -> PlayerQuit(p, t)
           [] call.fn = "skip" -> PlayerSkip(p, t, call.num)
           [] call.fn = "play_album" -> PlayerPlayAlbum(p, t, call.album_id)
           [] call.fn = "play_track" -> PlayerPlayTrack(p, t, call.track_id)
           [] call.fn = "play_playlist" ->
                  PlayerPlayPlaylist(p, t, call.playlist_id)
           [] call.fn = "jump_forward" -> PlayerJump(p, t, JumpStep)
           [] call.fn = "jump_backward" -> PlayerJump(p, t, 0 - JumpStep)
           [] call.fn = "play_uri" -> PlayerPlayUri(p, t, call.uri)
           [] OTHER -> Unchanged(p, t, Ok("unit"))

\* as Dispatch, with the arms of Next and Previous exchanged
Dispatch_swaps_next_previous(a) ==
    CASE a.type = "Next" -> [fn |-> "previous"]
      [] a.type = "Previous" -> [fn |-> "next"]
      [] a.type = "Play" -> [fn |-> "play"]
      [] a.type = "Pause" -> [fn |-> "pause"]
      [] a.type = "Stop" -> [fn |-> "stop"]
      [] a.type = "Quit" -> [fn |-> "quit"]
      [] a.type = "SkipTo" -> [fn |-> "skip", num |-> a.num, force |-> TRUE]
      [] OTHER -> [fn |-> "query"]

\* as Dispatch, with a SkipTo past the end taken for the last position
Dispatch_skip_clamped(a) ==
    CASE a.type = "SkipTo" ->
             [fn |-> "skip", force |-> TRUE,
              num |-> IF a.num > MaxPos THEN MaxPos ELSE a.num]
      [] a.type = "Play" -> [fn |-> "play"]
      [] a.type = "Pause" -> [fn |-> "pause"]
      [] a.type = "Next" -> [fn |-> "next"]
      [] a.type = "Stop" -> [fn |-> "stop"]
      [] a.type = "Quit" -> [fn |-> "quit"]
      [] OTHER -> [fn |-> "query"]

\* as Dispatch, with Stop handed to player::quit
Dispatch_stop_as_quit(a) ==
    CASE a.type = "Stop" -> [fn |-> "quit"]
      [] a.type = "Quit" -> [fn |-> "quit"]
      [] a.type = "Play" -> [fn |-> "play"]
      [] a.type = "Pause" -> [fn |-> "pause"]
      [] a.type = "Next" -> [fn |-> "next"]
      [] OTHER -> [fn |-> "query"]

\* as Dispatch, with Stop handed to player::pause
Dispatch_stop_as_pause(a) ==
    CASE a.type = "Stop" -> [fn |-> "pause"]
      [] a.type = "Quit" -> [fn |-> "quit"]
      [] a.type = "Play" -> [fn |-> "play"]
      [] a.type = "Pause" -> [fn |-> "pause"]
      [] a.type = "Next" -> [fn |-> "next"]
      [] OTHER -> [fn |-> "query"]

\* as Dispatch, with no arm for the two jumps
Dispatch_drops_jumps(a) ==
    CASE a.type = "Play" -> [fn |-> "play"]
      [] a.type = "Pause" -> [fn |-> "pause"]
      [] a.type = "PlayPause" -> [fn |-> "play_pause"]
      [] a.type = "Next" -> [fn |-> "next"]
      [] a.type = "Previous" -> [fn |-> "previous"]
      [] a.type = "Stop" -> [fn |-> "stop"]
      [] a.type = "Quit" -> [fn |-> "quit"]
      [] a.type = "SkipTo" -> [fn |-> "skip", num |-> a.num, force |-> TRUE]
      [] a.type = "PlayAlbum" -> [fn |-> "play_album", album_id |-> a.album_id]
      [] a.type = "PlayTrack" -> [fn |-> "play_track", track_id |-> a.track_id]
      [] a.type = "PlayUri" -> [fn |-> "play_uri", uri |-> a.uri]
      [] a.type = "PlayPlaylist" ->
             [fn |-> "play_playlist", playlist_id |-> a.playlist_id]
      [] a.type = "Search" -> [fn |-> "search", query |-> a.query]
      [] a.type = "FetchArtistAlbums" ->
             [fn |-> "artist_albums", artist_id |-> a.artist_id]
      [] a.type = "FetchPlaylistTracks" ->
             [fn |-> "playlist_tracks", playlist_id |-> a.playlist_id]
      [] a.type = "FetchUserPlaylists" -> [fn |-> "user_playlists"]
      [] OTHER -> [fn |-> "none"]

\* the arms of recv_task's match: the player function an Action is handed to
Dispatch(a) ==
    CASE a.type = "Play" -> [fn |-> "play"]
      [] a.type = "Pause" -> [fn |-> "pause"]
      [] a.type = "PlayPause" -> [fn |-> "play_pause"]
      [] a.type = "Next" -> [fn |-> "next"]
      [] a.type = "Previous" -> [fn |-> "previous"]
      [] a.type = "Stop" -> [fn |-> "stop"]
      [] a.type = "Quit" -> [fn |-> "quit"]
      [] a.type = "SkipTo" -> [fn |-> "skip", num |-> a.num, force |-> TRUE]
      [] a.type = "JumpForward" -> [fn |-> "jump_forward"]
      [] a.type = "JumpBackward" -> [fn |-> "jump_backward"]
      [] a.type = "PlayAlbum" -> [fn |-> "play_album", album_id |-> a.album_id]
      [] a.type = "PlayTrack" -> [fn |-> "play_track", track_id |-> a.track_id]
      [] a.type = "PlayUri" -> [fn |-> "play_uri", uri |-> a.uri]
      [] a.type = "PlayPlaylist" ->
             [fn |-> "play_playlist", playlist_id |-> a.playlist_id]
      [] a.type = "Search" -> [fn |-> "search", query |-> a.query]
      [] a.type = "FetchArtistAlbums" ->
             [fn |-> "artist_albums", artist_id |-> a.artist_id]
      [] a.type = "FetchPlaylistTracks" ->
             [fn |-> "playlist_tracks", playlist_id |-> a.playlist_id]
      [] a.type = "FetchUserPlaylists" -> [fn |-> "user_playlists"]

\* the four fetches of recv_task's match, each answered on the rt channel
FetchFns == {"search", "artist_albums", "playlist_tracks", "user_playlists"}

\* json!({ .. }): the response recv_task makes of the results of a fetch
RtJson(call, results) ==
    CASE call.fn = "search" ->
             [key |-> "searchResults", id |-> None, results |-> results]
      [] call.fn = "artist_albums" ->
             [key |-> "artistAlbums", id |-> Some(call.artist_id),
              results |-> results]
      [] call.fn = "playlist_tracks" ->
             [key |-> "playlistTracks", id |-> Some(call.playlist_id),
              results |-> results]
      [] call.fn = "user_playlists" ->
             [key |-> "userPlaylists", id |-> None, results |-> results]

\* the player applying one action
ApplyAction(p, t, a) == PlayerCall(p, t, Dispatch(a))

\* player::current_tracklist(), player::position(), player::current_state()
player_current_tracklist(p, t) == t
player_position(p) == p.clock
player_current_state(p) == p.status

\* the hub handing a notification to one subscriber: the buffer is bounded
\* and lossy, the oldest entry goes when it is full
RECURSIVE Deliver(_, _)
Deliver(rx, notes) ==
    IF notes = <<>> THEN rx
    ELSE LET full == Append(rx, Head(notes))
         IN Deliver(IF Len(full) > HubCap THEN Tail(full) ELSE full,
                    Tail(notes))

\* notes numbered from the n-th broadcast on
Numbered(notes, n) ==
    [i \in 1..Len(notes) |->
        [seq |-> n + i, kind |-> notes[i].kind, val |-> notes[i].val]]

\* a connection nobody has opened
ConnIdle ==
    [hc |-> "idle", send |-> "idle", recv |-> "idle", client |-> "none",
     subscribed |-> FALSE, subAt |-> 0, rx |-> <<>>, sent |-> <<>>,
     hold |-> None, ans |-> None, abort |-> "none"]

\* the sources of actions: the websocket connections and the local front end
Sources == Conns \cup {"local"}

\* no action is on its way to the player
PipeIdle ==
    [inbox |-> [s \in Sources |-> <<>>],
     sent |-> [s \in Sources |-> 0],
     pending |-> [s \in Sources |-> FALSE],
     chan |-> <<>>,
     applied |-> [s \in Sources |-> <<>>],
     rt |-> [c \in Conns |-> <<>>],
     fetch |-> [c \in Conns |-> <<>>],
     out |-> [c \in Conns |-> <<>>],
     asked |-> [c \in Conns |-> <<>>],
     menu |-> [c \in Conns |-> {}]]

\* the graceful-shutdown future is not followed
SrvIdle == [state |-> "serving", subscribed |-> FALSE, rx |-> <<>>]

\* the websocket server is not part of the run
WsUnused ==
    /\ player = PlayerInit
    /\ nseq = 0
    /\ conn = [c \in Conns |-> ConnIdle]
    /\ pipe = PipeIdle
    /\ srv = SrvIdle
    /\ ui = UiIdle

----------------------------------------------------------------------------
(* Spec: one TrackListValue and its mutators *)

Init ==
    \E q \in {None} \cup {Some(m) : m \in FreshQueues} :
        /\ tl = new(q)
        /\ last = [op |-> "new", queue |-> q]
        /\ WsUnused

SetTrackStatus ==
    \E position \in Positions, status \in TrackStatus :
        /\ tl' = set_track_status(tl, position, status)
        /\ last' = [op |-> "set_track_status", position |-> position,
                    status |-> status]
        /\ UNCHANGED wsVars

SetAlbum ==
    \E album \in Albums :
        /\ tl' = set_album(tl, album)
        /\ last' = [op |-> "set_album", album |-> album]
        /\ UNCHANGED wsVars

SetPlaylist ==
    \E playlist \in Playlists :
        /\ tl' = set_playlist(tl, playlist)
        /\ last' = [op |-> "set_playlist", playlist |-> playlist,
                    after |-> last.op]
        /\ UNCHANGED wsVars

SetListType ==
    \E list_type \in TrackListType :
        /\ tl' = set_list_type(tl, list_type)
        /\ last' = [op |-> "set_list_type", list_type |-> list_type]
        /\ UNCHANGED wsVars

Clear ==
    /\ tl' = clear(tl)
    /\ last' = [op |-> "clear", twice |-> (last.op = "clear")]
    /\ UNCHANGED wsVars

\* a reader taking the four views of the TrackListValue between two mutations
ReadViews ==
    /\ last' = [op |-> "views",
                all |-> all_tracks(tl),
                unplayed |-> unplayed_tracks(tl),
                played |-> played_tracks(tl),
                current |-> current_track(tl)]
    /\ UNCHANGED tl
    /\ UNCHANGED wsVars

Next ==
    \/ SetTrackStatus
    \/ SetAlbum
    \/ SetPlaylist
    \/ SetListType
    \/ Clear
    \/ ReadViews

Spec == Init /\ [][Next]_vars

----------------------------------------------------------------------------
(* SpecQuery: the read-only functions, each applied to every TrackListValue *)

TrackLists ==
    [queue : BTreeMaps(Tracks),
     album : {None} \cup {Some(a) : a \in Albums},
     playlist : {None} \cup {Some(p) : p \in Playlists},
     list_type : TrackListType]

InitQuery ==
    /\ tl \in TrackLists
    /\ last = [op |-> "input"]
    /\ WsUnused

Total ==
    /\ last.op = "input"
    /\ last' = [op |-> "total", res |-> total(tl)]
    /\ UNCHANGED tl
    /\ UNCHANGED wsVars

GetAlbum ==
    /\ last.op = "input"
    /\ last' = [op |-> "get_album", res |-> get_album(tl)]
    /\ UNCHANGED tl
    /\ UNCHANGED wsVars

AllTracks ==
    /\ last.op = "input"
    /\ last' = [op |-> "all_tracks", res |-> all_tracks(tl)]
    /\ UNCHANGED tl
    /\ UNCHANGED wsVars

TrackIndex ==
    /\ last.op = "input"
    /\ \E track_id \in TrackIds \cup {0} :
        last' = [op |-> "track_index", track_id |-> track_id,
                 res |-> track_index(tl, track_id)]
    /\ UNCHANGED tl
    /\ UNCHANGED wsVars

CurrentTrack ==
    /\ last.op = "input"
    /\ last' = [op |-> "current_track", res |-> current_track(tl)]
    /\ UNCHANGED tl
    /\ UNCHANGED wsVars

Serialize ==
    /\ last.op = "input"
    /\ last' = [op |-> "serialize", res |-> Encode(tl)]
    /\ UNCHANGED tl
    /\ UNCHANGED wsVars

RoundTrip ==
    /\ last.op = "input"
    /\ last' = [op |-> "round_trip", res |-> Decode(Encode(tl))]
    /\ UNCHANGED tl
    /\ UNCHANGED wsVars

DisplayType ==
    /\ last.op = "input"
    /\ \E t \in TrackListType :
        last' = [op |-> "display", list_type |-> t, res |-> TrackListType_fmt(t)]
    /\ UNCHANGED tl
    /\ UNCHANGED wsVars

FromType ==
    /\ last.op = "input"
    /\ \E s \in TypeStrings :
        last' = [op |-> "from", tracklist_type |-> s,
                 res |-> TrackListType_from(s)]
    /\ UNCHANGED tl
    /\ UNCHANGED wsVars

DisplayFromType ==
    /\ last.op = "input"
    /\ \E t \in TrackListType :
        last' = [op |-> "display_from", list_type |-> t,
                 via |-> TrackListType_fmt(t),
                 res |-> TrackListType_from(TrackListType_fmt(t))]
    /\ UNCHANGED tl
    /\ UNCHANGED wsVars

NextQuery ==
    \/ DisplayType
    \/ FromType
    \/ DisplayFromType
    \/ Total
    \/ GetAlbum
    \/ AllTracks
    \/ TrackIndex
    \/ CurrentTrack
    \/ Serialize
    \/ RoundTrip

SpecQuery == InitQuery /\ [][NextQuery]_vars

----------------------------------------------------------------------------
(* SpecWs: the websocket server, handle_connection for each connection *)

\* the variants of Action that recv_task matches
ActionTypes ==
    {"Play", "Pause", "PlayPause", "Next", "Previous", "Stop", "Quit",
     "SkipTo", "JumpForward", "JumpBackward", "PlayAlbum", "PlayTrack",
     "PlayUri", "PlayPlaylist", "Search", "FetchArtistAlbums",
     "FetchPlaylistTracks", "FetchUserPlaylists"}

\* what a client sends: text that encodes an action, text that does not,
\* a frame that is not text, and a transport error on the stream
Inbound ==
    {[ws |-> "Text", body |-> a] : a \in ClientActions}
    \cup {[ws |-> "Text", body |-> [type |-> "Bogus"]],
          [ws |-> "Binary"], [ws |-> "Error"]}

\* as DecodeAction, with every text taken for an action
DecodeAction_lenient(body) ==
    IF body.type \in ActionTypes THEN Ok(body) ELSE Ok([type |-> "Play"])

\* serde_json::from_str::<Action>
DecodeAction(body) ==
    IF body.type \in ActionTypes THEN Ok(body) ELSE Err("decode")

Finished == {"done", "panicked", "aborted"}

\* the broadcast receiver of a task that has ended is dropped
DropReceiver(k) ==
    [k EXCEPT !.subscribed = FALSE, !.rx = <<>>, !.hold = None]

\* the rt channel of a connection goes, and what it holds with it, when
\* both of its ends have: rt_receiver with send_task, rt_sender with recv_task
DropRt(cs, p) ==
    [p EXCEPT !.rt = [c \in Conns |->
                         IF cs[c].send \in Finished /\ cs[c].recv \in Finished
                         THEN <<>> ELSE p.rt[c]]]

\* the hub broadcasting notes to every subscriber
Broadcast(cs, notes, n) ==
    [c \in Conns |->
        IF cs[c].subscribed
        THEN [cs[c] EXCEPT !.rx = Deliver(@, Numbered(notes, n))]
        ELSE cs[c]]

\* the first connection sends at most MaxInbox frames in a run, every other
\* source one
MaxInbox == 2

SendLimit(src) == IF src = "c1" THEN MaxInbox ELSE 1

\* sender.send(Message::Text(..)): the message goes out while the client is
\* there
SocketSend(k, msg) == [k EXCEPT !.sent = Append(@, msg)]

\* the server is up and no client has connected
InitWs ==
    /\ tl = new(Some(LoadedQueue))
    /\ last = [op |-> "ws_start"]
    /\ player = PlayerInit
    /\ nseq = 0
    /\ conn = [c \in Conns |-> ConnIdle]
    /\ pipe = PipeIdle
    /\ srv = SrvIdle
    /\ ui = UiIdle

\* handle_connection: split the socket, spawn send_task and recv_task
Connect ==
    \E c \in Conns :
        /\ conn[c].hc = "idle"
        /\ conn' = [conn EXCEPT ![c] =
                [@ EXCEPT !.hc = "running", !.send = "spawned",
                          !.recv = "recv", !.client = "connected"]]
        /\ UNCHANGED <<tl, last, player, nseq, pipe, srv, ui>>

\* as SendSubscribe, with a receiver that starts on the last notification
\* emitted before it
SendSubscribe_replays_last ==
    \E c \in Conns :
        /\ conn[c].send = "spawned"
        /\ conn' = [conn EXCEPT ![c] =
                [@ EXCEPT !.send = "tracklist", !.subscribed = TRUE,
                          !.subAt = nseq,
                          !.rx = IF nseq = 0 THEN <<>>
                                 ELSE <<[seq |-> nseq, kind |-> "Status",
                                         val |-> Payload("Status",
                                             player_current_state(player))]>>]]
        /\ UNCHANGED <<tl, last, player, nseq, pipe, srv, ui>>

\* as SendSubscribe, with the receiver made only after the snapshot
SendSubscribe_after_snapshot ==
    \E c \in Conns :
        \/ /\ conn[c].send = "spawned"
           /\ conn' = [conn EXCEPT ![c].send = "tracklist"]
           /\ UNCHANGED <<tl, last, player, nseq, pipe, srv, ui>>
        \/ /\ conn[c].send = "relay"
           /\ ~conn[c].subscribed
           /\ conn' = [conn EXCEPT ![c] =
                   [@ EXCEPT !.subscribed = TRUE, !.subAt = nseq, !.rx = <<>>]]
           /\ UNCHANGED <<tl, last, player, nseq, pipe, srv, ui>>

\* send_task, first poll: player::notify_receiver(), then the task waits for
\* player::current_tracklist()
SendSubscribe ==
    \E c \in Conns :
        /\ conn[c].send = "spawned"
        /\ conn' = [conn EXCEPT ![c] =
                [@ EXCEPT !.send = "tracklist", !.subscribed = TRUE,
                          !.subAt = nseq, !.rx = <<>>]]
        /\ UNCHANGED <<tl, last, player, nseq, pipe, srv, ui>>

\* the three messages of the snapshot, of the values read from the player
TrackListMessage(p, t) ==
    [from |-> "snapshot", kind |-> "CurrentTrackList",
     val |-> Payload("CurrentTrackList", player_current_tracklist(p, t))]

PositionMessage(p) ==
    [from |-> "snapshot", kind |-> "Position",
     val |-> Payload("Position", player_position(p).val)]

StatusMessage(p) ==
    [from |-> "snapshot", kind |-> "Status",
     val |-> Payload("Status", player_current_state(p))]

\* the send of a snapshot message completes: the message the task holds has
\* gone out and the task goes on holding `next` in state `then`, or the expect
\* on the send panics the task
SnapshotSend(k, next, then) ==
    IF k.client = "connected"
    THEN [SocketSend(k, k.hold.val) EXCEPT !.send = then, !.hold = next]
    ELSE [DropReceiver(k) EXCEPT !.send = "panicked"]

\* send_task: player::current_tracklist() returns, the message made of it is
\* handed to the socket and the task waits for the send
SendReadTrackList ==
    \E c \in Conns :
        /\ conn[c].send = "tracklist"
        /\ ~conn[c].hold.some
        /\ conn' = [conn EXCEPT ![c].hold =
                       Some(TrackListMessage(player, tl))]
        /\ UNCHANGED <<tl, last, player, nseq, pipe, srv, ui>>

\* send_task: the send of the CurrentTrackList snapshot completes; the task
\* reads player::position() and, if there is one, hands the Position message
\* to the socket, else reads player::current_state() and hands the Status
\* message to the socket
SendSnapshotTrackList ==
    \E c \in Conns :
        /\ conn[c].send = "tracklist"
        /\ conn[c].hold.some
        /\ conn' = [conn EXCEPT ![c] =
                IF player_position(player).some
                THEN SnapshotSend(@, Some(PositionMessage(player)), "position")
                ELSE SnapshotSend(@, Some(StatusMessage(player)), "status")]
        /\ pipe' = DropRt(conn', pipe)
        /\ UNCHANGED <<tl, last, player, nseq, srv, ui>>

\* send_task: the send of the Position snapshot completes; the task reads
\* player::current_state() and hands the Status message to the socket
SendSnapshotPosition ==
    \E c \in Conns :
        /\ conn[c].send = "position"
        /\ conn' = [conn EXCEPT ![c] =
                SnapshotSend(@, Some(StatusMessage(player)), "status")]
        /\ pipe' = DropRt(conn', pipe)
        /\ UNCHANGED <<tl, last, player, nseq, srv, ui>>

\* send_task: the send of the Status snapshot completes; the task enters its
\* relay loop
SendSnapshotStatus ==
    \E c \in Conns :
        /\ conn[c].send = "status"
        /\ conn' = [conn EXCEPT ![c] = SnapshotSend(@, None, "relay")]
        /\ pipe' = DropRt(conn', pipe)
        /\ UNCHANGED <<tl, last, player, nseq, srv, ui>>

\* the message the relay loop makes of a notification
RelayMessage(n) ==
    [from |-> "broadcast", seq |-> n.seq, kind |-> n.kind, val |-> n.val]

\* as RelayBroadcast, with the loop running beside the snapshot
RelayBroadcast_before_snapshot ==
    \E c \in Conns :
        /\ conn[c].send \in {"tracklist", "position", "status", "relay"}
        /\ conn[c].rx # <<>>
        /\ conn' = [conn EXCEPT ![c] =
                SocketSend([@ EXCEPT !.rx = Tail(@)],
                           RelayMessage(Head(conn[c].rx)))]
        /\ UNCHANGED <<tl, last, player, nseq, pipe, srv, ui>>

\* as RelayBroadcast, taking the newest notification of the buffer first
RelayBroadcast_newest_first ==
    \E c \in Conns :
        /\ conn[c].send = "relay"
        /\ ~conn[c].hold.some
        /\ conn[c].rx # <<>>
        /\ conn' = [conn EXCEPT ![c] =
                [@ EXCEPT !.rx = SubSeq(@, 1, Len(@) - 1),
                          !.hold = Some(RelayMessage(
                                       conn[c].rx[Len(conn[c].rx)]))]]
        /\ UNCHANGED <<tl, last, player, nseq, pipe, srv, ui>>

\* as RelayBroadcast, leaving the notification in the buffer
RelayBroadcast_no_pop ==
    \E c \in Conns :
        /\ conn[c].send = "relay"
        /\ ~conn[c].hold.some
        /\ conn[c].rx # <<>>
        /\ Len(conn[c].sent) < MaxEmit + 4
        /\ conn' = [conn EXCEPT ![c].hold =
                       Some(RelayMessage(Head(conn[c].rx)))]
        /\ UNCHANGED <<tl, last, player, nseq, pipe, srv, ui>>

\* send_task, relay loop: the select takes the next broadcast notification,
\* the message made of it is handed to the socket and the task waits for the
\* send
RelayBroadcast ==
    \E c \in Conns :
        /\ conn[c].send = "relay"
        /\ ~conn[c].hold.some
        /\ conn[c].rx # <<>>
        /\ conn' = [conn EXCEPT ![c] =
                [@ EXCEPT !.rx = Tail(@),
                          !.hold = Some(RelayMessage(Head(conn[c].rx)))]]
        /\ UNCHANGED <<tl, last, player, nseq, pipe, srv, ui>>

\* send_task, relay loop: the send completes, a failed send is logged, and
\* the loop goes back to its select
RelaySend ==
    \E c \in Conns :
        /\ conn[c].send = "relay"
        /\ conn[c].hold.some
        /\ conn' = [conn EXCEPT ![c] =
                [(IF @.client = "connected" THEN SocketSend(@, @.hold.val)
                  ELSE @) EXCEPT !.hold = None]]
        /\ UNCHANGED <<tl, last, player, nseq, pipe, srv, ui>>

\* a client writes a frame to its websocket
ClientFrame ==
    \E c \in Conns :
        \E m \in pipe.menu[c] :
            /\ conn[c].client = "connected"
            /\ pipe.sent[c] < SendLimit(c)
            /\ pipe' = [pipe EXCEPT
                           !.sent[c] = @ + 1,
                           !.inbox[c] = Append(@, [n |-> pipe.sent[c] + 1,
                                                   m |-> m])]
            /\ UNCHANGED <<tl, last, player, nseq, conn, srv, ui>>

\* recv_task: receiver.next() yields the oldest frame of the socket. Text
\* that decodes as an Action goes through the match: a player call is put on
\* the player's channel and the task waits for its result, a fetch is started
\* and the task waits for it. Any other frame is passed over.
RecvMessage ==
    \E c \in Conns :
        /\ conn[c].recv = "recv"
        /\ pipe.inbox[c] # <<>>
        /\ LET e == Head(pipe.inbox[c])
               m == e.m
           IN IF m.ws = "Text" /\ DecodeAction(m.body).ok
              THEN LET a == DecodeAction(m.body).val
                       call == Dispatch(a)
                   IN /\ IF call.fn \in FetchFns
                         THEN /\ pipe' = [pipe EXCEPT
                                     !.inbox[c] = Tail(@),
                                     !.asked[c] = Append(@, e.n),
                                     !.fetch[c] = <<[req |-> e.n,
                                                     call |-> call]>>]
                              /\ conn' = [conn EXCEPT ![c].recv = "fetch"]
                         ELSE /\ pipe' = [pipe EXCEPT
                                     !.inbox[c] = Tail(@),
                                     !.pending[c] = TRUE,
                                     !.chan = Append(@, [src |-> c, n |-> e.n,
                                                         call |-> call])]
                              /\ conn' = [conn EXCEPT ![c].recv = "call"]
                      /\ last' = [op |-> "ws_taken", conn |-> c, msg |-> m,
                                  action |-> a, calls |-> <<call>>,
                                  after_ignored |->
                                      (last.op = "ws_ignored" /\ last.conn = c)]
                      /\ UNCHANGED <<tl, player, nseq, srv, ui>>
              ELSE /\ pipe' = [pipe EXCEPT !.inbox[c] = Tail(@)]
                   /\ last' = [op |-> "ws_ignored", conn |-> c, msg |-> m]
                   /\ UNCHANGED <<tl, player, nseq, conn, srv, ui>>

\* recv_task: the player's result arrives; .expect("") panics the task on Err
RecvAnswer ==
    \E c \in Conns :
        /\ conn[c].recv = "call"
        /\ conn[c].ans.some
        /\ conn' = [conn EXCEPT ![c] =
                [@ EXCEPT !.ans = None,
                          !.recv = IF conn[c].ans.val.ok THEN "recv"
                                   ELSE "panicked"]]
        /\ last' = [op |-> "ws_action", conn |-> c, res |-> conn[c].ans.val,
                    after_ignored |->
                        (/\ last.op = "ws_taken" /\ last.conn = c
                         /\ last.after_ignored)]
        /\ pipe' = DropRt(conn', pipe)
        /\ UNCHANGED <<tl, player, nseq, srv, ui>>

\* the client goes away; the frames it wrote before are still read
ClientClose ==
    \E c \in Conns :
        /\ conn[c].client = "connected"
        /\ conn' = [conn EXCEPT ![c].client = "gone"]
        /\ UNCHANGED <<tl, last, player, nseq, pipe, srv, ui>>

\* recv_task: receiver.next() is None, the loop and the task end
RecvEnd ==
    \E c \in Conns :
        /\ conn[c].recv = "recv"
        /\ conn[c].client = "gone"
        /\ pipe.inbox[c] = <<>>
        /\ conn' = [conn EXCEPT ![c].recv = "done"]
        /\ pipe' = DropRt(conn', pipe)
        /\ UNCHANGED <<tl, last, player, nseq, srv, ui>>

\* a task that has ended or was aborted holds nothing any more
EndTasks(k) ==
    [k EXCEPT !.hold = IF k.send \in Finished THEN None ELSE @,
              !.ans = IF k.recv \in Finished THEN None ELSE @]

\* the task the select of handle_connection calls abort() on: the other one
\* than the one that finished, unless it has finished too
AbortOf(k, finished) ==
    IF finished = "send"
    THEN IF k.recv \in Finished THEN "none" ELSE "recv"
    ELSE IF k.send \in Finished THEN "none" ELSE "send"

\* as JoinTasks, returning without the abort of the other task
JoinTasks_no_abort ==
    \E c \in Conns :
        /\ conn[c].hc = "running"
        /\ conn[c].send \in Finished \/ conn[c].recv \in Finished
        /\ conn' = [conn EXCEPT ![c].hc = "returned"]
        /\ pipe' = DropRt(conn', pipe)
        /\ UNCHANGED <<tl, last, player, nseq, srv, ui>>

\* handle_connection: the select on the two tasks; the first one to finish
\* has abort() called on the other, which only asks for the cancellation,
\* and handle_connection returns
JoinTasks ==
    \E c \in Conns :
        \E finished \in {"send", "recv"} :
            /\ conn[c].hc = "running"
            /\ conn[c][finished] \in Finished
            /\ conn' = [conn EXCEPT ![c] =
                    [conn[c] EXCEPT !.hc = "returned",
                                    !.abort = AbortOf(conn[c], finished)]]
            /\ pipe' = DropRt(conn', pipe)
            /\ UNCHANGED <<tl, last, player, nseq, srv, ui>>

\* the runtime drops a task abort() was called on, once the poll the task may
\* be in has ended: what the task held and waited for goes with it
AbortTask ==
    \E c \in Conns :
        /\ conn[c].hc = "returned"
        /\ \/ /\ conn[c].abort = "send"
              /\ conn[c].send \notin Finished
              /\ conn' = [conn EXCEPT ![c] =
                      EndTasks([DropReceiver(conn[c]) EXCEPT
                                   !.send = "aborted"])]
              /\ pipe' = DropRt(conn', pipe)
           \/ /\ conn[c].abort = "recv"
              /\ conn[c].recv \notin Finished
              /\ conn' = [conn EXCEPT ![c] =
                      EndTasks([conn[c] EXCEPT !.recv = "aborted"])]
              /\ pipe' = DropRt(conn', [pipe EXCEPT !.fetch[c] = <<>>,
                                                   !.out[c] = <<>>])
        /\ UNCHANGED <<tl, last, player, nseq, srv, ui>>

\* as LocalAction, the emit waiting until every subscriber's buffer has room
LocalAction_waits_for_room ==
    \E a \in LocalActions :
        LET r == ApplyAction(player, tl, a) IN
        /\ nseq + Len(r.notes) <= MaxEmit
        /\ \A c \in Conns :
               conn[c].subscribed => Len(conn[c].rx) + Len(r.notes) <= HubCap
        /\ player' = r.player
        /\ tl' = r.tl
        /\ nseq' = nseq + Len(r.notes)
        /\ conn' = Broadcast(conn, r.notes, nseq)
        /\ UNCHANGED <<last, pipe, srv, ui>>

\* the local front end has the player apply an action
LocalAction ==
    \E a \in LocalActions :
        LET r == ApplyAction(player, tl, a) IN
        /\ nseq + Len(r.notes) <= MaxEmit
        /\ player' = r.player
        /\ tl' = r.tl
        /\ nseq' = nseq + Len(r.notes)
        /\ conn' = Broadcast(conn, r.notes, nseq)
        /\ UNCHANGED <<last, pipe, srv, ui>>

\* the player takes the next call of its channel, runs it whole, broadcasts
\* its notifications and answers the caller if it still waits
PlayerTakes ==
    /\ pipe.chan # <<>>
    /\ LET h == Head(pipe.chan)
           r == PlayerCall(player, tl, h.call)
           heard == Broadcast(conn, r.notes, nseq)
       IN /\ nseq + Len(r.notes) <= MaxEmit
          /\ player' = r.player
          /\ tl' = r.tl
          /\ nseq' = nseq + Len(r.notes)
          /\ conn' = [c \in Conns |->
                         IF c = h.src /\ conn[c].recv = "call"
                         THEN [heard[c] EXCEPT !.ans = Some(r.res)]
                         ELSE heard[c]]
          /\ pipe' = [pipe EXCEPT
                         !.chan = Tail(@),
                         !.pending[h.src] = FALSE,
                         !.applied[h.src] = Append(@, h.n)]
    /\ UNCHANGED <<last, srv, ui>>

NextWs ==
    \/ Connect
    \/ SendSubscribe
    \/ SendReadTrackList
    \/ SendSnapshotTrackList
    \/ SendSnapshotPosition
    \/ SendSnapshotStatus
    \/ RelayBroadcast
    \/ RelaySend
    \/ ClientFrame
    \/ RecvMessage
    \/ PlayerTakes
    \/ RecvAnswer
    \/ ClientClose
    \/ RecvEnd
    \/ JoinTasks
    \/ AbortTask

\* a connection whose send_task has subscribed and sent the snapshot of the
\* player after setup, and whose recv_task waits for a message
ConnRelaying ==
    [hc |-> "running", send |-> "relay", recv |-> "recv",
     client |-> "connected", subscribed |-> TRUE, subAt |-> 0, rx |-> <<>>,
     hold |-> None, ans |-> None, abort |-> "none",
     sent |-> <<TrackListMessage(PlayerInit, new(Some(LoadedQueue))),
                StatusMessage(PlayerInit)>>]

\* the first connection is still to come and will send frames, the other is
\* up and only listens
InitTasks ==
    /\ tl = new(Some(LoadedQueue))
    /\ last = [op |-> "ws_start"]
    /\ player = PlayerInit
    /\ nseq = 0
    /\ conn = [c \in Conns |-> IF c = "c1" THEN ConnIdle ELSE ConnRelaying]
    /\ pipe = [PipeIdle EXCEPT
                  !.menu = [c \in Conns |-> IF c = "c1" THEN Inbound ELSE {}]]
    /\ srv = SrvIdle
    /\ ui = UiIdle

SpecWs == InitTasks /\ [][NextWs]_vars

\* SpecHub: the clients only listen, the actions come from the local front end
NextHub ==
    \/ Connect
    \/ SendSubscribe
    \/ SendReadTrackList
    \/ SendSnapshotTrackList
    \/ SendSnapshotPosition
    \/ SendSnapshotStatus
    \/ RelayBroadcast
    \/ RelaySend
    \/ LocalAction

SpecHub == InitWs /\ [][NextHub]_vars

\* SpecHubFair: the same, the runtime polling every send_task that can go on
SpecHubFair ==
    /\ InitTasks /\ [][NextHub]_vars
    /\ WF_vars(SendReadTrackList)
    /\ WF_vars(SendSnapshotTrackList)
    /\ WF_vars(SendSnapshotPosition)
    /\ WF_vars(SendSnapshotStatus)
    /\ WF_vars(RelayBroadcast)
    /\ WF_vars(RelaySend)

\* the connection that stalls and the one that listens beside it
Stalled == "c1"
Listener == "c2"

\* the client of the connection that stalls goes away
StalledClose == ClientClose /\ conn'[Stalled] # conn[Stalled]

\* the relay loop of the connection that listens takes a notification, and
\* its send completes
ListenerRelay == RelayBroadcast /\ conn'[Listener] # conn[Listener]
ListenerSend == RelaySend /\ conn'[Listener] # conn[Listener]

\* SpecStall: the same with a subscriber that has stopped consuming. The
\* connection that comes up beside the listener takes nothing from the buffer
\* of its subscription, may stop at any point of its snapshot for ever, and
\* its client may go away, which ends its tasks; nothing is assumed about
\* the pace of its tasks. The runtime runs the player and polls the send_task
\* of the listener.
NextStall ==
    \/ Connect
    \/ SendSubscribe
    \/ SendReadTrackList
    \/ SendSnapshotTrackList
    \/ SendSnapshotPosition
    \/ SendSnapshotStatus
    \/ ListenerRelay
    \/ ListenerSend
    \/ LocalAction
    \/ StalledClose
    \/ RecvEnd
    \/ JoinTasks
    \/ AbortTask

SpecStall ==
    /\ InitTasks /\ [][NextStall]_vars
    /\ WF_vars(LocalAction /\ nseq' > nseq)
    /\ WF_vars(ListenerRelay)
    /\ WF_vars(ListenerSend)

----------------------------------------------------------------------------
(* SpecPlayer: the player applying the actions handed to it, one at a time *)

\* the transport actions of a run
TransportActions ==
    {[type |-> "Play"], [type |-> "Pause"], [type |-> "PlayPause"],
     [type |-> "Next"], [type |-> "Previous"], [type |-> "Stop"],
     [type |-> "Quit"]}
    \cup {[type |-> "SkipTo", num |-> n] : n \in {MaxPos, MaxPos + 1}}

\* the queue-load actions of a run: ids the metadata service knows, and 0
\* which it does not
LoadActions ==
    {[type |-> "PlayAlbum", album_id |-> i] : i \in {ListAlbum.id, 0}}
    \cup {[type |-> "PlayTrack", track_id |-> i] : i \in {1, 0}}
    \cup {[type |-> "PlayPlaylist", playlist_id |-> i] :
              i \in {ListPlaylist.id, 0}}

InitPlayer == InitWs

PlayerActions == TransportActions \cup LoadActions

\* the player applying an action, nobody subscribed to the hub
PlayerApply ==
    \E a \in PlayerActions :
        LET r == ApplyAction(player, tl, a) IN
        /\ nseq + Len(r.notes) <= MaxEmit
        /\ player' = r.player
        /\ tl' = r.tl
        /\ nseq' = nseq + Len(r.notes)
        /\ last' = [op |-> "apply", action |-> a, res |-> r.res]
        /\ UNCHANGED <<conn, pipe, srv, ui>>

NextPlayer == PlayerApply

SpecPlayer == InitPlayer /\ [][NextPlayer]_vars

----------------------------------------------------------------------------
(* SpecOrder: actions of several sources on their way to the player *)

\* the actions the sources send
OrderActions == {[type |-> "Play"], [type |-> "Pause"], [type |-> "Next"]}

InitOrder == InitWs

\* a client writes an action to its websocket
ClientSends ==
    \E c \in Conns, a \in OrderActions :
        /\ pipe.sent[c] < SendLimit(c)
        /\ pipe' = [pipe EXCEPT
                       !.sent[c] = @ + 1,
                       !.inbox[c] = Append(@, [n |-> pipe.sent[c] + 1,
                                               a |-> a])]
        /\ UNCHANGED <<tl, last, player, nseq, conn, srv, ui>>

\* as RecvTake, reading the newest message of the socket first
RecvTake_newest_first ==
    \E c \in Conns :
        /\ ~pipe.pending[c]
        /\ pipe.inbox[c] # <<>>
        /\ LET m == pipe.inbox[c][Len(pipe.inbox[c])]
           IN pipe' = [pipe EXCEPT
                          !.inbox[c] = SubSeq(@, 1, Len(@) - 1),
                          !.pending[c] = TRUE,
                          !.chan = Append(@, [src |-> c, n |-> m.n,
                                              call |-> Dispatch(m.a)])]
        /\ UNCHANGED <<tl, last, player, nseq, conn, srv, ui>>

\* recv_task: receiver.next() yields the oldest message, the action in it is
\* handed to its player function and the task awaits the result before it
\* reads the next message
RecvTake ==
    \E c \in Conns :
        /\ ~pipe.pending[c]
        /\ pipe.inbox[c] # <<>>
        /\ LET m == Head(pipe.inbox[c])
           IN pipe' = [pipe EXCEPT
                          !.inbox[c] = Tail(@),
                          !.pending[c] = TRUE,
                          !.chan = Append(@, [src |-> c, n |-> m.n,
                                              call |-> Dispatch(m.a)])]
        /\ UNCHANGED <<tl, last, player, nseq, conn, srv, ui>>

\* the local front end hands an action to the player
LocalInput ==
    \E a \in OrderActions :
        /\ pipe.sent["local"] < SendLimit("local")
        /\ ~pipe.pending["local"]
        /\ pipe' = [pipe EXCEPT
                       !.sent["local"] = @ + 1,
                       !.pending["local"] = TRUE,
                       !.chan = Append(@, [src |-> "local",
                                           n |-> pipe.sent["local"] + 1,
                                           call |-> Dispatch(a)])]
        /\ UNCHANGED <<tl, last, player, nseq, conn, srv, ui>>

NextOrder ==
    \/ ClientSends
    \/ RecvTake
    \/ LocalInput
    \/ PlayerTakes

SpecOrder == InitOrder /\ [][NextOrder]_vars

----------------------------------------------------------------------------
(* SpecClient: the calls of the metadata client, on every answer *)

InitClient ==
    /\ \E self \in Clients, e \in Endpoints, r1 \in Replies, r2 \in Replies :
           last = [op |-> "request", client |-> self, endpoint |-> e,
                   replies |-> <<r1, r2>>]
    /\ tl = new(None)
    /\ WsUnused

MakeCall ==
    /\ last.op = "request"
    /\ last' = [op |-> "make_call", input |-> last,
                out |-> make_call(last.client, last.endpoint, Some(<<"id">>),
                                 last.replies)]
    /\ UNCHANGED tl
    /\ UNCHANGED wsVars

ClientAlbum ==
    /\ last.op = "request"
    /\ last.endpoint = "album/get"
    /\ last' = [op |-> "album", input |-> last,
                out |-> client_album(last.client, ListAlbum.id, last.replies)]
    /\ UNCHANGED tl
    /\ UNCHANGED wsVars

ClientTrack ==
    /\ last.op = "request"
    /\ last.endpoint = "track/get"
    /\ last' = [op |-> "track", input |-> last,
                out |-> client_track(last.client, 1, last.replies)]
    /\ UNCHANGED tl
    /\ UNCHANGED wsVars

ClientPlaylist ==
    /\ last.op = "request"
    /\ last.endpoint = "playlist/get"
    /\ last' = [op |-> "playlist", input |-> last,
                out |-> client_playlist(last.client, ListPlaylist.id,
                                       last.replies)]
    /\ UNCHANGED tl
    /\ UNCHANGED wsVars

NextClient ==
    \/ MakeCall
    \/ ClientAlbum
    \/ ClientTrack
    \/ ClientPlaylist

SpecClient == InitClient /\ [][NextClient]_vars

----------------------------------------------------------------------------
(* SpecShutdown: the server's graceful-shutdown future beside the player *)

\* the actions the player applies while the server runs
ShutdownActions ==
    {[type |-> "Play"], [type |-> "Pause"], [type |-> "Next"],
     [type |-> "Stop"], [type |-> "Quit"]}

\* the server is up: its shutdown future has subscribed to the hub
InitShutdown ==
    /\ tl = new(Some(LoadedQueue))
    /\ last = [op |-> "ws_start"]
    /\ player = PlayerInit
    /\ nseq = 0
    /\ conn = [c \in Conns |-> ConnIdle]
    /\ pipe = PipeIdle
    /\ srv = [state |-> "serving", subscribed |-> TRUE, rx |-> <<>>]
    /\ ui = UiIdle

\* the player applies an action, the hub hands its notifications to the
\* shutdown future
ServedAction ==
    \E a \in ShutdownActions :
        LET r == ApplyAction(player, tl, a) IN
        /\ nseq + Len(r.notes) <= MaxEmit
        /\ player' = r.player
        /\ tl' = r.tl
        /\ nseq' = nseq + Len(r.notes)
        /\ srv' = IF srv.subscribed
                  THEN [srv EXCEPT !.rx = Deliver(@, Numbered(r.notes, nseq))]
                  ELSE srv
        /\ UNCHANGED <<last, conn, pipe, ui>>

\* as WatchNext, leaving the loop on whatever notification comes
WatchNext_any_notification ==
    /\ srv.state = "serving"
    /\ srv.rx # <<>>
    /\ srv' = [state |-> "shutdown", subscribed |-> FALSE, rx |-> <<>>]
    /\ UNCHANGED <<tl, last, player, nseq, conn, pipe, ui>>

\* the shutdown future: one turn of its loop, the break on Quit ends it
WatchNext ==
    /\ srv.state = "serving"
    /\ srv.rx # <<>>
    /\ srv' = IF Head(srv.rx).kind = "Quit"
              THEN [state |-> "shutdown", subscribed |-> FALSE, rx |-> <<>>]
              ELSE [srv EXCEPT !.rx = Tail(@)]
    /\ UNCHANGED <<tl, last, player, nseq, conn, pipe, ui>>

NextShutdown ==
    \/ ServedAction
    \/ WatchNext

\* the runtime polls the future whenever its receiver has a notification
SpecShutdown ==
    InitShutdown /\ [][NextShutdown]_vars /\ WF_vars(WatchNext)

----------------------------------------------------------------------------
(* SpecRt: recv_task's match on every Action, and the rt channel that takes *)
(* the results of the fetches to the connection's socket                    *)

\* flume::bounded::<Value>(1)
RtCap == 1

\* one action of every variant, and a SkipTo the player refuses
RtActions ==
    {[type |-> "Play"], [type |-> "Pause"], [type |-> "PlayPause"],
     [type |-> "Next"], [type |-> "Previous"], [type |-> "Stop"],
     [type |-> "Quit"], [type |-> "JumpForward"], [type |-> "JumpBackward"],
     [type |-> "SkipTo", num |-> 1], [type |-> "SkipTo", num |-> MaxPos + 1],
     [type |-> "PlayAlbum", album_id |-> ListAlbum.id],
     [type |-> "PlayTrack", track_id |-> 1],
     [type |-> "PlayUri", uri |-> [kind |-> "playlist", id |-> ListPlaylist.id]],
     [type |-> "PlayPlaylist", playlist_id |-> ListPlaylist.id],
     [type |-> "Search", query |-> "q"],
     [type |-> "FetchArtistAlbums", artist_id |-> 1],
     [type |-> "FetchPlaylistTracks", playlist_id |-> ListPlaylist.id],
     [type |-> "FetchUserPlaylists"]}

\* the variants that are fetches
FetchTypes ==
    {"Search", "FetchArtistAlbums", "FetchPlaylistTracks", "FetchUserPlaylists"}

\* the text frames that carry the actions of the given variants
TextFrames(types) ==
    {[ws |-> "Text", body |-> a] : a \in {b \in RtActions : b.type \in types}}

\* the text frame of a SkipTo
SkipFrame(num) == [ws |-> "Text", body |-> [type |-> "SkipTo", num |-> num]]

\* two connections are up; both send fetches, the first a SkipTo the player
\* refuses as well, the other a SkipTo it runs
InitRt ==
    /\ tl = new(Some(LoadedQueue))
    /\ last = [op |-> "ws_start"]
    /\ player = PlayerInit
    /\ nseq = 0
    /\ conn = [c \in Conns |-> ConnRelaying]
    /\ pipe = [PipeIdle EXCEPT
                  !.menu = [c \in Conns |->
                               IF c = "c1"
                               THEN TextFrames({"Search"})
                                        \cup {SkipFrame(MaxPos + 1)}
                               ELSE TextFrames({"FetchArtistAlbums"})
                                        \cup {SkipFrame(1)}]]
    /\ srv = SrvIdle
    /\ ui = UiIdle

\* recv_task: the fetch returns; the response is made of its results and the
\* task waits for rt_sender.send_async
FetchReturns ==
    \E c \in Conns :
        /\ conn[c].recv = "fetch"
        /\ LET f == Head(pipe.fetch[c])
           IN pipe' = [pipe EXCEPT
                          !.fetch[c] = <<>>,
                          !.out[c] = <<[conn |-> c, req |-> f.req,
                                        json |-> RtJson(f.call,
                                                        PlayerFetch(f.call))]>>]
        /\ conn' = [conn EXCEPT ![c].recv = "respond"]
        /\ UNCHANGED <<tl, last, player, nseq, srv, ui>>

\* recv_task: rt_sender.send_async(..).await; the task goes on when the
\* channel has taken the response, or at once when send_task and with it the
\* receiver has gone, the error being logged
RtSend ==
    \E c \in Conns :
        /\ conn[c].recv = "respond"
        /\ IF conn[c].send \in Finished
           THEN pipe' = [pipe EXCEPT !.out[c] = <<>>]
           ELSE /\ Len(pipe.rt[c]) < RtCap
                /\ pipe' = [pipe EXCEPT !.out[c] = <<>>,
                                        !.rt[c] = Append(@, Head(pipe.out[c]))]
        /\ conn' = [conn EXCEPT ![c].recv = "recv"]
        /\ UNCHANGED <<tl, last, player, nseq, srv, ui>>

\* the message the relay loop makes of a response
RtMessage(m) ==
    [from |-> "rt", conn |-> m.conn, req |-> m.req, kind |-> m.json.key,
     val |-> m.json]

\* send_task, relay loop: the select takes the next response of rt_stream,
\* the message made of it is handed to the socket and the task waits for the
\* send
RelayRt ==
    \E c \in Conns :
        /\ conn[c].send = "relay"
        /\ ~conn[c].hold.some
        /\ pipe.rt[c] # <<>>
        /\ pipe' = [pipe EXCEPT !.rt[c] = Tail(@)]
        /\ conn' = [conn EXCEPT ![c].hold = Some(RtMessage(Head(pipe.rt[c])))]
        /\ UNCHANGED <<tl, last, player, nseq, srv, ui>>

NextRt ==
    \/ ClientFrame
    \/ RecvMessage
    \/ PlayerTakes
    \/ RecvAnswer
    \/ FetchReturns
    \/ RtSend
    \/ RelayRt
    \/ RelayBroadcast
    \/ RelaySend
    \/ ClientClose
    \/ RecvEnd
    \/ JoinTasks
    \/ AbortTask

\* the runtime polls both tasks and the player: a fetch returns, a send_async
\* the channel has room for completes, the select of the relay loop takes
\* what rt_stream holds, and a send to the socket completes
SpecRt ==
    /\ InitRt /\ [][NextRt]_vars
    /\ WF_vars(FetchReturns)
    /\ WF_vars(RtSend)
    /\ WF_vars(RelayRt)
    /\ WF_vars(RelaySend)

\* SpecDispatch: one connection is up and sends actions of every variant
InitDispatch ==
    /\ tl = new(Some(LoadedQueue))
    /\ last = [op |-> "ws_start"]
    /\ player = PlayerInit
    /\ nseq = 0
    /\ conn = [c \in Conns |-> IF c = "c1" THEN ConnRelaying ELSE ConnIdle]
    /\ pipe = [PipeIdle EXCEPT
                  !.menu = [c \in Conns |->
                               IF c = "c1" THEN TextFrames(ActionTypes)
                               ELSE {}]]
    /\ srv = SrvIdle
    /\ ui = UiIdle

NextDispatch ==
    \/ ClientFrame
    \/ RecvMessage
    \/ PlayerTakes
    \/ RecvAnswer
    \/ FetchReturns
    \/ RtSend
    \/ RelayRt
    \/ RelayBroadcast
    \/ RelaySend

SpecDispatch == InitDispatch /\ [][NextDispatch]_vars

----------------------------------------------------------------------------
(* SpecUi: a List and a Table of the terminal UI and the calls made on them *)

InitUi ==
    /\ \E items \in {None} \cup {Some(v) : v \in ItemLists},
          rows \in {None} \cup {Some(v) : v \in ItemLists},
          header \in {None, Some(<<1>>)} :
           ui = [list |-> list_new(items),
                 table |-> table_new(header, rows, Some(<<1>>))]
    /\ last = [op |-> "ui_new"]
    /\ tl = new(None)
    /\ player = PlayerInit
    /\ nseq = 0
    /\ conn = [c \in Conns |-> ConnIdle]
    /\ pipe = PipeIdle
    /\ srv = SrvIdle

ListSetItems ==
    \E items \in ItemLists :
        /\ ui' = [ui EXCEPT !.list = list_set_items(@, items)]
        /\ last' = [op |-> "list_set_items", was |-> ui.list.selected]
        /\ UNCHANGED <<tl, player, nseq, conn, pipe, srv>>

ListNext ==
    /\ ui' = [ui EXCEPT !.list = list_next(@)]
    /\ last' = [op |-> "list_next", was |-> ui.list.selected]
    /\ UNCHANGED <<tl, player, nseq, conn, pipe, srv>>

ListPrevious ==
    /\ ui' = [ui EXCEPT !.list = list_previous(@)]
    /\ last' = [op |-> "list_previous", was |-> ui.list.selected]
    /\ UNCHANGED <<tl, player, nseq, conn, pipe, srv>>

ListSelect ==
    \E num \in Selections :
        /\ ui' = [ui EXCEPT !.list = list_select(@, num)]
        /\ last' = [op |-> "list_select", was |-> ui.list.selected]
        /\ UNCHANGED <<tl, player, nseq, conn, pipe, srv>>

TableSetHeader ==
    \E header \in HeaderLists :
        /\ ui' = [ui EXCEPT !.table = table_set_header(@, header)]
        /\ last' = [op |-> "table_set_header", was |-> ui.table.selected]
        /\ UNCHANGED <<tl, player, nseq, conn, pipe, srv>>

TableSetWidths ==
    \E widths \in WidthLists :
        /\ ui' = [ui EXCEPT !.table = table_set_widths(@, widths)]
        /\ last' = [op |-> "table_set_widths", was |-> ui.table.selected]
        /\ UNCHANGED <<tl, player, nseq, conn, pipe, srv>>

TableSelect ==
    \E num \in Selections :
        /\ ui' = [ui EXCEPT !.table = table_select(@, num)]
        /\ last' = [op |-> "table_select", was |-> ui.table.selected]
        /\ UNCHANGED <<tl, player, nseq, conn, pipe, srv>>

TableSetRows ==
    \E rows \in ItemLists :
        /\ ui' = [ui EXCEPT !.table = table_set_rows(@, rows)]
        /\ last' = [op |-> "table_set_rows", was |-> ui.table.selected]
        /\ UNCHANGED <<tl, player, nseq, conn, pipe, srv>>

TableNext ==
    /\ ui' = [ui EXCEPT !.table = table_next(@)]
    /\ last' = [op |-> "table_next", was |-> ui.table.selected]
    /\ UNCHANGED <<tl, player, nseq, conn, pipe, srv>>

TablePrevious ==
    /\ ui' = [ui EXCEPT !.table = table_previous(@)]
    /\ last' = [op |-> "table_previous", was |-> ui.table.selected]
    /\ UNCHANGED <<tl, player, nseq, conn, pipe, srv>>

NextUi ==
    \/ ListSetItems
    \/ ListNext
    \/ ListPrevious
    \/ TableSetRows
    \/ TableNext
    \/ TablePrevious
    \/ ListSelect
    \/ TableSelect
    \/ TableSetHeader
    \/ TableSetWidths

SpecUi == InitUi /\ [][NextUi]_vars

----------------------------------------------------------------------------
(* Properties *)

PlayingKeys(t) == {k \in DOMAIN t.queue : t.queue[k].status = "Playing"}

Count(seq, x) == Cardinality({i \in 1..Len(seq) : seq[i] = x})

OptSeq(o) == IF o.some THEN <<o.val>> ELSE <<>>

\* the i-th smallest key of q
KthKey(q, i) ==
    CHOOSE k \in DOMAIN q : Cardinality({j \in DOMAIN q : j < k}) = i - 1

\* seq lists the tracks of q by strictly increasing key, each key once
InKeyOrder(seq, q) ==
    /\ Len(seq) = Cardinality(DOMAIN q)
    /\ \A i \in 1..Len(seq) : seq[i] = q[KthKey(q, i)]

EmptyTrackList ==
    [queue |-> EmptyMap, album |-> None, playlist |-> None,
     list_type |-> "Unknown"]

\* C1: in every state reached by new and the mutators, at most one track of
\* the queue has status Playing.
C1_AtMostOnePlaying == Cardinality(PlayingKeys(tl)) <= 1

\* C2: in every reachable state the views unplayed_tracks(), played_tracks()
\* and current_track() are pairwise disjoint and together hold exactly the
\* tracks of all_tracks(): each queued track is in exactly one of the three.
C2_ViewsPartition ==
    last.op = "views" =>
        \A x \in Tracks :
            /\ Count(last.all, x) =
                   Count(last.unplayed, x) + Count(last.played, x)
                   + Count(OptSeq(last.current), x)
            /\ Cardinality({v \in {last.unplayed, last.played,
                                   OptSeq(last.current)} : Count(v, x) > 0}) <= 1

\* C3: decoding the wire form of a TrackListValue gives back an equal
\* TrackListValue.
C3_RoundTrip == last.op = "round_trip" => last.res = Ok(tl)

\* C4: track_index(track_id) is the position of the first track, in position
\* order, whose id is track_id, and is absent when no queued track has that id,
\* also when several queued tracks share the id.
C4_TrackIndexFirst ==
    last.op = "track_index" =>
        LET M == {k \in DOMAIN tl.queue : tl.queue[k].id = last.track_id}
        IN last.res = IF M = {} THEN None ELSE Some(MinKey(M))

\* C5: all_tracks() and the serialized queue list the queued tracks by
\* strictly increasing position key, each queued track exactly once.
C5_PositionOrder ==
    /\ last.op = "all_tracks" => InKeyOrder(last.res, tl.queue)
    /\ last.op = "serialize" =>
           /\ last.res.queue.json = "array"
           /\ InKeyOrder(last.res.queue.items, tl.queue)

C5_Witness ==
    /\ last.op = "all_tracks"
    /\ Len(last.res) = MaxPos + 1
    /\ last.res[1] # last.res[2]
    /\ last.res[2] # last.res[3]

\* C6: total() is the album's total_tracks when an album is set, else the
\* playlist's tracks_count when a playlist is set, else the number of queue
\* entries (0 for an empty TrackList without parent, 12 for an album of 12
\* with 3 tracks queued).
C6_TotalPrecedence ==
    last.op = "total" =>
        /\ tl.album.some => last.res = tl.album.val.total_tracks
        /\ (~tl.album.some /\ tl.playlist.some) =>
               last.res = tl.playlist.val.tracks_count
        /\ (~tl.album.some /\ ~tl.playlist.some) =>
               last.res = Cardinality(DOMAIN tl.queue)
        /\ tl = EmptyTrackList => last.res = 0

C6_Witness ==
    /\ last.op = "total"
    /\ tl.album = Some(ListAlbum)
    /\ tl.playlist.some
    /\ Cardinality(DOMAIN tl.queue) = 3
    /\ last.res = 12

\* C7: clear() yields the state with empty queue, no album, no playlist and
\* list_type Unknown, and a clear() right after a clear() changes nothing.
C7_ClearIdempotent ==
    [][last'.op = "clear" =>
          /\ tl' = EmptyTrackList
          /\ last.op = "clear" => tl' = tl]_vars

C7_Witness ==
    /\ last.op = "clear"
    /\ last.twice
    /\ tl = EmptyTrackList

\* C8: current_track() is the one track with status Playing when there is
\* exactly one, and it is absent exactly when no queued track is Playing.
C8_CurrentTrack ==
    last.op = "current_track" =>
        LET P == PlayingKeys(tl) IN
        /\ Cardinality(P) = 1 => \A k \in P : last.res = Some(tl.queue[k])
        /\ (last.res = None) <=> (P = {})
        /\ last.res.some => last.res.val.status = "Playing"

C8_Witness ==
    /\ last.op = "current_track"
    /\ Cardinality(DOMAIN tl.queue) = 3
    /\ PlayingKeys(tl) = {1}
    /\ last.res = Some(tl.queue[1])

\* C9: get_album() is the embedded album of the currently playing track (the
\* first Playing track in position order) when there is one and it carries an
\* album; otherwise it is the TrackList-level album, which may be absent.
C9_GetAlbum ==
    last.op = "get_album" =>
        LET P == PlayingKeys(tl) IN
        last.res = IF P # {} /\ tl.queue[MinKey(P)].album.some
                   THEN tl.queue[MinKey(P)].album
                   ELSE tl.album

C9_Witness ==
    /\ last.op = "get_album"
    /\ Cardinality(PlayingKeys(tl)) = 1
    /\ tl.album = Some(ListAlbum)
    /\ last.res = Some(EmbeddedAlbum)

\* C10: set_track_status(pos, status) changes only the status of the track
\* at pos: the position keys, every other track, the album, the playlist and
\* list_type stay as they were, and with pos absent nothing changes at all.
C10_SetTrackStatusFrame ==
    [][last'.op = "set_track_status" =>
          LET pos == last'.position IN
          /\ DOMAIN tl'.queue = DOMAIN tl.queue
          /\ \A k \in DOMAIN tl.queue \ {pos} : tl'.queue[k] = tl.queue[k]
          /\ pos \in DOMAIN tl.queue =>
                 /\ tl'.queue[pos].status = last'.status
                 /\ tl'.queue[pos].id = tl.queue[pos].id
                 /\ tl'.queue[pos].album = tl.queue[pos].album
          /\ tl'.album = tl.album
          /\ tl'.playlist = tl.playlist
          /\ tl'.list_type = tl.list_type
          /\ pos \notin DOMAIN tl.queue => tl' = tl]_vars

C10_Witness ==
    /\ last.op = "set_track_status"
    /\ last.position \in DOMAIN tl.queue
    /\ last.status = "Played"
    /\ tl.queue[last.position].status = "Played"
    /\ \E k \in DOMAIN tl.queue : tl.queue[k].status = "Playing"

\* C11: set_album(a) sets the album to a and list_type to Album and leaves
\* the queue and the playlist as they were; set_playlist(p) sets the playlist
\* to p and list_type to Playlist and leaves the queue and the album as they
\* were.
C11_SetParentFrame ==
    [][/\ last'.op = "set_album" =>
              /\ tl'.album = Some(last'.album)
              /\ tl'.list_type = "Album"
              /\ tl'.queue = tl.queue
              /\ tl'.playlist = tl.playlist
       /\ last'.op = "set_playlist" =>
              /\ tl'.playlist = Some(last'.playlist)
              /\ tl'.list_type = "Playlist"
              /\ tl'.queue = tl.queue
              /\ tl'.album = tl.album]_vars

C11_Witness ==
    /\ last.op = "set_playlist"
    /\ tl.playlist = Some(ListPlaylist)
    /\ tl.album = Some(ListAlbum)
    /\ tl.list_type = "Playlist"
    /\ DOMAIN tl.queue # {}

\* C12: new(initial queue) returns a TrackList whose queue is the given
\* position-to-track mapping, empty when none is given, with no album, no
\* playlist and list_type Unknown.
C12_New ==
    last.op = "new" =>
        /\ last.queue.some => tl.queue = last.queue.val
        /\ ~last.queue.some => DOMAIN tl.queue = {}
        /\ tl.album = None
        /\ tl.playlist = None
        /\ tl.list_type = "Unknown"

C12_Witness ==
    /\ last.op = "new"
    /\ last.queue.some
    /\ DOMAIN tl.queue = {0, 2}
    /\ tl.queue = last.queue.val

----------------------------------------------------------------------------
(* Properties of the websocket server *)

Kinds(s) == [i \in 1..Len(s) |-> s[i].kind]

Seqs(s) == [i \in 1..Len(s) |-> s[i].seq]

\* what a connection was sent by the snapshot, and by the relay loop
SnapshotSent(c) == SelectSeq(conn[c].sent, LAMBDA m : m.from = "snapshot")

BroadcastSent(c) == SelectSeq(conn[c].sent, LAMBDA m : m.from = "broadcast")

\* the message send_task of c has handed to the socket and waits on
Held(c, from) ==
    IF conn[c].hold.some /\ conn[c].hold.val.from = from
    THEN <<conn[c].hold.val>> ELSE <<>>

\* the relay loop of c has started
Relaying(c) == conn[c].send = "relay" \/ BroadcastSent(c) # <<>>

Increasing(q) == \A i, j \in 1..Len(q) : i < j => q[i] < q[j]

\* C13 (as stated): on every new websocket connection the send task sends the
\* current tracklist, the current position and the current status, in that
\* order, before it relays any broadcast notification on that connection.
C13_SnapshotThenRelay ==
    \A c \in Conns :
        Relaying(c) =>
            /\ conn[c].sent = SnapshotSent(c) \o BroadcastSent(c)
            /\ Kinds(SnapshotSent(c)) =
                   <<"CurrentTrackList", "Position", "Status">>

\* the snapshot precedes every relayed notification; it is the tracklist,
\* the position if there is one, and the status
C13_SnapshotOrder ==
    \A c \in Conns :
        Relaying(c) =>
            /\ conn[c].sent = SnapshotSent(c) \o BroadcastSent(c)
            /\ Kinds(SnapshotSent(c)) \in
                   {<<"CurrentTrackList", "Position", "Status">>,
                    <<"CurrentTrackList", "Status">>}

\* every value of the snapshot is the player's at the moment it is read, and
\* goes out as it was read once its send completes; the position is read,
\* and sent, only when the player has one
C13_SnapshotValues ==
    \A c \in Conns :
        LET old == conn[c].sent
            now == conn'[c].sent
            one == /\ Len(now) = Len(old) + 1
                   /\ SubSeq(now, 1, Len(old)) = old
                   /\ now[Len(now)] = conn[c].hold.val
            status == /\ conn'[c].hold.val.kind = "Status"
                      /\ conn'[c].hold.val.val.status = player.status
        IN /\ (conn[c].send = "tracklist" /\ conn'[c].send = "tracklist"
                   /\ conn'[c].hold # conn[c].hold) =>
                  /\ ~conn[c].hold.some /\ now = old
                  /\ conn'[c].hold.val.from = "snapshot"
                  /\ conn'[c].hold.val.kind = "CurrentTrackList"
                  /\ conn'[c].hold.val.val.list = tl
           /\ (conn[c].send = "tracklist"
                   /\ conn'[c].send \in {"position", "status"}) =>
                  /\ old = <<>> /\ one
                  /\ now[Len(now)].kind = "CurrentTrackList"
                  /\ IF player.clock.some
                     THEN /\ conn'[c].send = "position"
                          /\ conn'[c].hold.val.kind = "Position"
                          /\ conn'[c].hold.val.val.clock = player.clock.val
                     ELSE conn'[c].send = "status" /\ status
           /\ (conn[c].send = "position" /\ conn'[c].send = "status") =>
                  /\ one /\ status
                  /\ now[Len(now)].kind = "Position"
           /\ (conn[c].send = "status" /\ conn'[c].send = "relay") =>
                  /\ one
                  /\ now[Len(now)].kind = "Status"
                  /\ ~conn'[c].hold.some

\* C13 (amended): on every new websocket connection the send task sends the
\* current tracklist, then the current position when the player reports one
\* (no position message otherwise), then the current status, in that order,
\* before it relays any broadcast notification on that connection.
C13_Snapshot == [][C13_SnapshotOrder' /\ C13_SnapshotValues]_vars

C13_Witness ==
    \E c, d \in Conns :
        /\ conn[c].send = "relay"
        /\ Kinds(SnapshotSent(c)) = <<"CurrentTrackList", "Status">>
        /\ Kinds(SnapshotSent(d)) = <<"CurrentTrackList", "Position", "Status">>
        /\ BroadcastSent(d) # <<>>

\* C14: a subscriber that attaches after notifications N1..Nk were emitted
\* never receives any of them: a connection is sent only its snapshot and the
\* notifications emitted after it subscribed.
C14_NoReplay ==
    \A c \in Conns :
        /\ \A i \in 1..Len(conn[c].sent) :
               \/ conn[c].sent[i].from = "snapshot"
               \/ /\ conn[c].sent[i].from = "broadcast"
                  /\ conn[c].sent[i].seq \in (conn[c].subAt + 1)..nseq
        /\ \A i \in 1..Len(conn[c].rx) :
               conn[c].rx[i].seq \in (conn[c].subAt + 1)..nseq
        /\ \A i \in 1..Len(Held(c, "broadcast")) :
               Held(c, "broadcast")[i].seq \in (conn[c].subAt + 1)..nseq

C14_Witness ==
    \E c \in Conns :
        /\ conn[c].subAt >= 2
        /\ Len(SnapshotSent(c)) = 3
        /\ BroadcastSent(c) # <<>>

\* C15: a subscriber that receives notifications A and B, A emitted before B,
\* receives and relays A before B; two subscribers attached before a Play
\* both get its Status and Position in the same relative order.
C15_EmissionOrder ==
    /\ \A c \in Conns :
           Increasing(Seqs(BroadcastSent(c)) \o Seqs(Held(c, "broadcast"))
                          \o Seqs(conn[c].rx))
    /\ \A c, d \in Conns :
           LET bc == Seqs(BroadcastSent(c))
               bd == Seqs(BroadcastSent(d))
           IN \A i, j \in 1..Len(bc), k, l \in 1..Len(bd) :
                  (bc[i] = bd[k] /\ bc[j] = bd[l]) => ((i < j) <=> (k < l))

C15_Witness ==
    \A c \in Conns :
        /\ conn[c].subAt = 0
        /\ Kinds(BroadcastSent(c)) = <<"Status", "Position">>
        /\ BroadcastSent(c)[1].val.status = "Playing"

\* C16: each emitted notification is delivered to each subscriber at most
\* once: no connection is sent the same broadcast notification twice.
C16_AtMostOnce ==
    \A c \in Conns :
        LET got == Seqs(BroadcastSent(c)) \o Seqs(Held(c, "broadcast"))
                       \o Seqs(conn[c].rx)
        IN \A i, j \in 1..Len(got) : got[i] = got[j] => i = j

C16_Witness ==
    \E c \in Conns :
        /\ Len(BroadcastSent(c)) >= 3
        /\ conn[c].rx = <<>>

Min(a, b) == IF a <= b THEN a ELSE b

\* connection c is up: its client is there and its send_task relays
Up(c) ==
    /\ conn[c].client = "connected"
    /\ conn[c].hc = "running"
    /\ conn[c].send = "relay"

\* connection c has been sent a broadcast notification emitted as the n-th or
\* later
SentSince(c, n) ==
    \E i \in 1..Len(BroadcastSent(c)) : BroadcastSent(c)[i].seq >= n

\* buffer `now` is what the hub leaves of buffer `was` after the emissions
\* numbered from + 1 .. to: the newest HubCap of them in emission order, the
\* oldest lost
Overwritten(was, now, from, to) ==
    /\ Len(now) = Min(Len(was) + (to - from), HubCap)
    /\ \A i \in 1..Len(now) : now[i].seq = to - Len(now) + i
    /\ \A i \in 1..Len(now) : \A j \in 1..Len(was) :
           now[i].seq = was[j].seq => now[i] = was[j]

\* C17: the producer of notifications is never blocked by a subscriber: with
\* one subscriber that has stopped consuming at any point, slow or
\* disconnected, every emit completes (the player gets through all the MaxEmit
\* notifications of a run), the subscriber that listens beside it
\* keeps receiving (again and again it has been sent the newest notification
\* or a later one, as long as it is up), and an emit changes of a subscriber
\* its buffer only, which loses its oldest entries when full.
C17_ProducerNeverBlocked ==
    /\ <>(nseq = MaxEmit)
    /\ []<>(nseq = 0 \/ SentSince(Listener, nseq) \/ ~Up(Listener))
    /\ [][nseq' > nseq =>
             \A c \in Conns :
                 /\ [conn'[c] EXCEPT !.rx = conn[c].rx] = conn[c]
                 /\ IF conn[c].subscribed
                    THEN Overwritten(conn[c].rx, conn'[c].rx, nseq, nseq')
                    ELSE conn'[c].rx = conn[c].rx]_vars

\* the client of the connection beside the listener has gone while its
\* send_task was in the snapshot, recv_task has ended on it and
\* handle_connection has returned, asking for send_task to be aborted; the
\* buffer of its subscription is full and has lost its oldest notification,
\* and the listener has been sent the newest
C17_Witness ==
    /\ conn[Stalled].client = "gone"
    /\ conn[Stalled].hc = "returned"
    /\ conn[Stalled].recv = "done"
    /\ conn[Stalled].abort = "send"
    /\ conn[Stalled].subscribed /\ conn[Stalled].send # "relay"
    /\ Len(conn[Stalled].rx) = HubCap
    /\ conn[Stalled].rx[1].seq > conn[Stalled].subAt + 1
    /\ Up(Listener)
    /\ BroadcastSent(Listener) # <<>>
    /\ BroadcastSent(Listener)[Len(BroadcastSent(Listener))].seq = nseq

\* task `task` of connection record k has not ended
Unfinished(k, task) == k[task] \notin Finished

\* C18: when a websocket observer disconnects, exactly that connection's two
\* tasks end: the one that finishes first has the other aborted, and no task
\* of another connection and no player state is affected.
C18_DisconnectEndsOwnTasks ==
    /\ [][\A c \in Conns :
          LET frame == /\ \A d \in Conns \ {c} : conn'[d] = conn[d]
                       /\ player' = player /\ tl' = tl /\ nseq' = nseq
          IN /\ (conn[c].client = "connected" /\ conn'[c].client = "gone") =>
                    frame
             /\ (conn[c].recv = "recv" /\ conn'[c].recv = "done") =>
                    conn[c].client = "gone" /\ frame
             /\ (conn[c].hc = "running" /\ conn'[c].hc = "returned") =>
                    /\ ~Unfinished(conn[c], "send")
                           \/ ~Unfinished(conn[c], "recv")
                    /\ conn'[c].send = conn[c].send
                    /\ conn'[c].recv = conn[c].recv
                    /\ \A task \in {"send", "recv"} :
                           Unfinished(conn[c], task) => conn'[c].abort = task
                    /\ frame
             /\ \A task \in {"send", "recv"} :
                    (conn'[c][task] = "aborted" /\ conn[c][task] # "aborted") =>
                        /\ conn[c].hc = "returned"
                        /\ conn[c].abort = task
                        /\ frame
             /\ conn'[c].abort # conn[c].abort =>
                    conn[c].hc = "running" /\ conn'[c].hc = "returned"]_vars
    /\ [](\A c \in Conns : \A task \in {"send", "recv"} :
             (conn[c].hc = "returned" /\ Unfinished(conn[c], task)) =>
                 /\ conn[c].abort = task
                 /\ ENABLED AbortTask)

C18_Witness ==
    \E c, d \in Conns :
        /\ conn[c].hc = "returned"
        /\ conn[c].client = "gone"
        /\ conn[c].recv = "done"
        /\ conn[c].send = "aborted"
        /\ conn[d].hc = "running"
        /\ conn[d].send = "relay"
        /\ conn[d].recv = "recv"
        /\ player.status = "Playing"

\* C19: when the player returns an error for an Action received over a
\* websocket, the error is recovered at the action-handling boundary: nothing
\* changes, the connection's receive task goes on and nothing is terminated.
C19_ErrorRecovered ==
    [][(last' # last /\ last'.op = "ws_action" /\ ~last'.res.ok) =>
          /\ conn'[last'.conn].recv = "recv"
          /\ conn'[last'.conn].hc = "running"
          /\ player' = player /\ tl' = tl /\ nseq' = nseq]_vars

\* a text message that encodes an Action
WellFormed(m) == m.ws = "Text" /\ m.body.type \in ActionTypes

\* the step is recv_task of c taking a frame from its socket
Took(c) == Len(pipe'.inbox[c]) < Len(pipe.inbox[c])

\* C20: an inbound message that is not text, or whose text does not decode as
\* an Action, invokes no player operation and changes no state; the
\* connection keeps receiving and later well-formed actions are dispatched.
C20_MalformedIgnored ==
    [][\A c \in Conns :
        Took(c) =>
            LET e == Head(pipe.inbox[c]) IN
            IF WellFormed(e.m)
            THEN /\ last'.op = "ws_taken" /\ last'.conn = c
                 /\ conn'[c].recv = "call"
                 /\ pipe'.chan = Append(pipe.chan,
                        [src |-> c, n |-> e.n, call |-> Dispatch(e.m.body)])
            ELSE /\ last'.op = "ws_ignored" /\ last'.conn = c
                 /\ player' = player /\ tl' = tl /\ nseq' = nseq
                 /\ conn' = conn
                 /\ pipe'.chan = pipe.chan
                 /\ conn'[c].recv = "recv"]_vars

C20_Witness ==
    /\ last.op = "ws_action"
    /\ last.after_ignored
    /\ last.res.ok
    /\ player.status = "Playing"
    /\ conn[last.conn].recv = "recv"

----------------------------------------------------------------------------
(* Properties of the player *)

\* the step applies an action of the given types to a player that has not quit
Applies(types) ==
    /\ last'.op = "apply"
    /\ last'.action.type \in types
    /\ player.status # "Quit"

\* C23: Next while the current position is the last one of the queue moves
\* the player to Stopped with no track left Playing and no wraparound;
\* Previous at the first position changes nothing.
C23_NextPreviousAtEnds ==
    [][/\ (/\ Applies({"Next"})
           /\ DOMAIN tl.queue # {}
           /\ player.cur = LastPosition(tl)) =>
              /\ player'.status = "Stopped"
              /\ player'.cur = player.cur
              /\ PlayingKeys(tl') = {}
              /\ DOMAIN tl'.queue = DOMAIN tl.queue
       /\ (/\ Applies({"Previous"})
           /\ DOMAIN tl.queue # {}
           /\ player.cur = FirstPosition(tl)) =>
              /\ player' = player
              /\ tl' = tl
              /\ nseq' = nseq]_vars

C23_Witness ==
    /\ last.op = "apply"
    /\ last.action.type = "Next"
    /\ player.status = "Stopped"
    /\ player.cur = MaxPos
    /\ \A k \in DOMAIN tl.queue : tl.queue[k].status = "Played"

\* C24: SkipTo with a target that is no position of the current queue yields
\* an InvalidTarget error and leaves the queue, every track status and the
\* playback status as they were.
C24_SkipToInvalid ==
    [][(Applies({"SkipTo"}) /\ last'.action.num \notin DOMAIN tl.queue) =>
          /\ last'.res = Err("InvalidTarget")
          /\ tl' = tl
          /\ player' = player
          /\ nseq' = nseq]_vars

C24_Witness ==
    /\ last.op = "apply"
    /\ last.action.type = "SkipTo"
    /\ last.res = Err("InvalidTarget")
    /\ player.status = "Playing"
    /\ player.cur = 1

\* C25: Quit is terminal: it is reached from any state by a Quit action and
\* by nothing else, and once in Quit no later action changes the player.
C25_QuitTerminal ==
    [][/\ Applies({"Quit"}) => player'.status = "Quit" /\ tl' = tl
       /\ (player.status # "Quit" /\ player'.status = "Quit") =>
              /\ last'.op = "apply"
              /\ last'.action.type = "Quit"
              /\ last'.res.ok
       /\ player.status = "Quit" =>
              /\ player' = player
              /\ tl' = tl
              /\ nseq' = nseq]_vars

C25_Witness ==
    /\ player.status = "Quit"
    /\ player.cur = 1
    /\ last.op = "apply"
    /\ last.action.type = "PlayAlbum"
    /\ last.action.album_id = ListAlbum.id
    /\ tl.album = None

\* the id a queue-load action names, and the kind of thing it names
LoadKind(a) ==
    CASE a.type = "PlayAlbum" -> "album"
      [] a.type = "PlayTrack" -> "track"
      [] a.type = "PlayPlaylist" -> "playlist"

LoadId(a) ==
    CASE a.type = "PlayAlbum" -> a.album_id
      [] a.type = "PlayTrack" -> a.track_id
      [] a.type = "PlayPlaylist" -> a.playlist_id

\* C26: a queue-load action whose id the metadata client cannot resolve
\* surfaces NotFound to the caller and leaves the TrackList, the playback
\* status and the position unchanged.
C26_LoadNotFound ==
    [][(/\ Applies({"PlayAlbum", "PlayTrack", "PlayPlaylist"})
        /\ LoadId(last'.action) \notin KnownIds[LoadKind(last'.action)]) =>
          /\ last'.res = Err("NotFound")
          /\ tl' = tl
          /\ player' = player
          /\ nseq' = nseq]_vars

C26_Witness ==
    /\ last.op = "apply"
    /\ last.action.type = "PlayAlbum"
    /\ last.res = Err("NotFound")
    /\ player.status = "Playing"
    /\ tl.playlist = Some(ListPlaylist)

\* C27: Stop moves the player to Stopped from any state but Quit and leaves
\* the queue as it is: the same positions with the same tracks.
C27_StopKeepsQueue ==
    [][Applies({"Stop"}) =>
          /\ player'.status = "Stopped"
          /\ DOMAIN tl'.queue = DOMAIN tl.queue
          /\ \A k \in DOMAIN tl.queue :
                 [tl'.queue[k] EXCEPT !.status = "Unplayed"] =
                     [tl.queue[k] EXCEPT !.status = "Unplayed"]
          /\ tl'.album = tl.album
          /\ tl'.playlist = tl.playlist
          /\ tl'.list_type = tl.list_type]_vars

C27_Witness ==
    /\ last.op = "apply"
    /\ last.action.type = "Stop"
    /\ player.status = "Stopped"
    /\ player.cur = MaxPos
    /\ DOMAIN tl.queue = Positions
    /\ tl.queue[MaxPos].status = "Playing"

----------------------------------------------------------------------------
(* Properties of the snapshot and of the order of actions *)

\* the player states a run can go through
PlayerStep(s, a) ==
    LET r == ApplyAction(s.player, s.tl, a)
    IN [player |-> r.player, tl |-> r.tl]

RECURSIVE PlayerReach(_)
PlayerReach(S) ==
    LET N == S \cup {PlayerStep(s, a) :
                        s \in S, a \in LocalActions \cup ClientActions}
    IN IF N = S THEN S ELSE PlayerReach(N)

PlayerStates ==
    PlayerReach({[player |-> PlayerInit, tl |-> new(Some(LoadedQueue))]})

\* the snapshot a connection was sent is what one player state s shows
ShowsState(snap, s) ==
    /\ snap[1].val.list = s.tl
    /\ snap[Len(snap)].val.status = s.player.status
    /\ IF Len(snap) = 3 THEN s.player.clock = Some(snap[2].val.clock)
       ELSE s.player.clock = None

\* C22: the tracklist, position and status sent as initial snapshot show no
\* torn update: together they describe one player state that existed, even
\* when actions are applied while the connection is set up.
C22_SnapshotNotTorn ==
    \A c \in Conns :
        conn[c].send = "relay" =>
            \E s \in PlayerStates : ShowsState(SnapshotSent(c), s)

\* the numbers of the actions of source src in the channel
NumbersOf(q, src) ==
    LET own == SelectSeq(q, LAMBDA e : e.src = src)
    IN [i \in 1..Len(own) |-> own[i].n]

\* the actions of every source were applied in the order it sent them, and
\* a source has one call in flight at most
AppliedInOrder ==
    \A src \in Sources :
        LET done == pipe.applied[src] \o NumbersOf(pipe.chan, src)
        IN /\ done = [i \in 1..Len(done) |-> i]
           /\ Len(NumbersOf(pipe.chan, src)) <= 1

\* C21: actions arriving from several sources are applied to the player one
\* at a time in a single total order: the mutations of two actions never
\* interleave, and the actions of one connection are applied in the order
\* they were received.
C21_TotalOrder ==
    [][/\ AppliedInOrder'
       /\ (player' # player \/ tl' # tl \/ pipe'.applied # pipe.applied) =>
              /\ pipe.chan # <<>>
              /\ player' = PlayerCall(player, tl, Head(pipe.chan).call).player
              /\ tl' = PlayerCall(player, tl, Head(pipe.chan).call).tl
              /\ pipe'.chan = Tail(pipe.chan)
              /\ pipe'.applied =
                     [pipe.applied EXCEPT ![Head(pipe.chan).src] =
                         Append(@, Head(pipe.chan).n)]]_vars

C21_Witness ==
    /\ pipe.applied["c1"] = <<1>>
    /\ pipe.applied["c2"] = <<1>>
    /\ pipe.applied["local"] = <<>>
    /\ Len(pipe.chan) = 2
    /\ pipe.chan[1].src = "local"
    /\ pipe.chan[2] = [src |-> "c1", n |-> 2, call |-> [fn |-> "pause"]]
    /\ player.status = "Playing"
    /\ player.cur = 1

----------------------------------------------------------------------------
(* Properties of the metadata client, the views and the shutdown *)

\* the request came back with a failure
CallFailed(reply) == reply.net = "error" \/ reply.status # 200

\* C28: a metadata API call issues one request and is never retried; every
\* failure of the call (transport error or any non-success HTTP status) is
\* surfaced to the caller as an error result, and the caller proceeds.
C28_CallSurfacesFailure ==
    last.op = "make_call" =>
        /\ last.out.requests = 1
        /\ CallFailed(last.input.replies[1]) =>
               /\ ~IsPanic(last.out.res)
               /\ ~last.out.res.ok

\* seq lists the tracks of q that have the status, by increasing position
IsView(seq, q, status) ==
    LET K == {k \in DOMAIN q : q[k].status = status}
    IN InKeyOrder(seq, [k \in K |-> q[k]])

\* C29: after any sequence of set_track_status calls unplayed_tracks() is
\* exactly the queued tracks with status Unplayed and played_tracks() those
\* with status Played, each in increasing position order; a status change is
\* visible in both views at once.
C29_ViewsFollowStatus ==
    last.op = "views" =>
        /\ IsView(last.unplayed, tl.queue, "Unplayed")
        /\ IsView(last.played, tl.queue, "Played")

C29_Witness ==
    /\ last.op = "views"
    /\ DOMAIN tl.queue = Positions
    /\ Len(last.unplayed) = 1
    /\ Len(last.played) = 1
    /\ tl.queue[0].status = "Playing"
    /\ tl.queue[1].status = "Played"

\* a Quit notification waits in the buffer of the shutdown future
QuitPending == \E i \in 1..Len(srv.rx) : srv.rx[i].kind = "Quit"

\* C30: the graceful-shutdown future completes after a Quit notification is
\* broadcast, and only then: every other notification received on its
\* subscription leaves the server running.
C30_GracefulShutdown ==
    /\ [][/\ (srv.state = "serving" /\ srv'.state = "shutdown") =>
                 /\ srv.rx # <<>>
                 /\ Head(srv.rx).kind = "Quit"
          /\ (/\ srv.state = "serving"
              /\ srv.rx # <<>>
              /\ Head(srv.rx).kind # "Quit"
              /\ Len(srv'.rx) # Len(srv.rx)
              /\ nseq' = nseq) =>
                 /\ srv'.state = "serving"
                 /\ Seqs(srv'.rx) = Seqs(Tail(srv.rx))]_vars
    /\ (QuitPending ~> srv.state = "shutdown")

C30_Witness ==
    /\ srv.state = "shutdown"
    /\ player.status = "Quit"
    /\ player.cur = 1
    /\ nseq >= 4

----------------------------------------------------------------------------
(* Properties of the dispatch and of the rt channel *)

\* the player operation that corresponds to a variant of Action
OperationOf(type) ==
    CASE type = "Play" -> "play"
      [] type = "Pause" -> "pause"
      [] type = "PlayPause" -> "play_pause"
      [] type = "Next" -> "next"
      [] type = "Previous" -> "previous"
      [] type = "Stop" -> "stop"
      [] type = "Quit" -> "quit"
      [] type = "SkipTo" -> "skip"
      [] type = "JumpForward" -> "jump_forward"
      [] type = "JumpBackward" -> "jump_backward"
      [] type = "PlayAlbum" -> "play_album"
      [] type = "PlayTrack" -> "play_track"
      [] type = "PlayUri" -> "play_uri"
      [] type = "PlayPlaylist" -> "play_playlist"
      [] type = "Search" -> "search"
      [] type = "FetchArtistAlbums" -> "artist_albums"
      [] type = "FetchPlaylistTracks" -> "playlist_tracks"
      [] type = "FetchUserPlaylists" -> "user_playlists"

\* the response that corresponds to a fetch
ResponseOf(type) ==
    CASE type = "Search" -> "searchResults"
      [] type = "FetchArtistAlbums" -> "artistAlbums"
      [] type = "FetchPlaylistTracks" -> "playlistTracks"
      [] type = "FetchUserPlaylists" -> "userPlaylists"

\* C31: every Action variant decoded from a websocket text message is handed
\* to exactly one player operation, the one of its variant; a fetch is
\* followed by one response, the one of its variant, and no variant of the
\* closed set goes without a call.
C31_EveryVariantDispatched ==
    [][/\ \A ty \in ActionTypes : \E a \in RtActions : a.type = ty
       /\ \A c \in Conns :
           /\ Took(c) =>
                  LET e == Head(pipe.inbox[c])
                      ty == e.m.body.type
                  IN /\ last'.op = "ws_taken" /\ last'.conn = c
                     /\ ty \in ActionTypes
                     /\ Len(last'.calls) = 1
                     /\ last'.calls[1].fn = OperationOf(ty)
                     /\ player' = player /\ tl' = tl /\ nseq' = nseq
                     /\ pipe'.out = pipe.out /\ pipe'.rt = pipe.rt
                     /\ IF ty \in FetchTypes
                        THEN /\ pipe'.fetch[c] =
                                    <<[req |-> e.n, call |-> last'.calls[1]]>>
                             /\ pipe'.chan = pipe.chan
                             /\ conn'[c].recv = "fetch"
                        ELSE /\ pipe'.chan = Append(pipe.chan,
                                    [src |-> c, n |-> e.n,
                                     call |-> last'.calls[1]])
                             /\ pipe'.fetch = pipe.fetch
                             /\ conn'[c].recv = "call"
           /\ pipe'.out[c] # pipe.out[c] /\ pipe'.out[c] # <<>> =>
                  /\ conn[c].recv = "fetch" /\ conn'[c].recv = "respond"
                  /\ pipe.out[c] = <<>> /\ Len(pipe'.out[c]) = 1
                  /\ \E ty \in FetchTypes :
                         /\ pipe.fetch[c][1].call.fn = OperationOf(ty)
                         /\ pipe'.out[c][1].json.key = ResponseOf(ty)
                         /\ pipe'.out[c][1].json.results.of = OperationOf(ty)
                  /\ pipe'.out[c][1].req = pipe.fetch[c][1].req
                  /\ pipe'.fetch[c] = <<>>
       /\ (player' # player \/ tl' # tl \/ nseq' # nseq
               \/ pipe'.applied # pipe.applied) =>
              /\ pipe.chan # <<>>
              /\ pipe'.chan = Tail(pipe.chan)
              /\ LET r == PlayerCall(player, tl, Head(pipe.chan).call)
                 IN /\ player' = r.player /\ tl' = r.tl
                    /\ nseq' = nseq + Len(r.notes)]_vars

\* the results sent on connection c, by the number of their request
RtSent(c) == SelectSeq(conn[c].sent, LAMBDA m : m.from = "rt")

Reqs(q) == [i \in 1..Len(q) |-> q[i].req]

C31_Witness ==
    /\ last.op = "ws_action"
    /\ last.res.ok
    /\ pipe.chan = <<>>
    /\ player.status = "Playing"
    /\ tl.list_type = "Playlist"
    /\ Len(RtSent("c1")) = 1
    /\ RtSent("c1")[1].kind = "userPlaylists"

IsPrefix(p, q) == Len(p) <= Len(q) /\ SubSeq(q, 1, Len(p)) = p

\* the results of c's fetches are on c's side only, each at most once and in
\* the order of the requests; while c's client is there none is missing
RtRouted ==
    \A c \in Conns :
        /\ \A d \in Conns :
               /\ \A i \in 1..Len(RtSent(d)) :
                      RtSent(d)[i].conn = c => d = c
               /\ \A i \in 1..Len(Held(d, "rt")) :
                      Held(d, "rt")[i].conn = c => d = c
               /\ \A i \in 1..Len(pipe.rt[d]) :
                      pipe.rt[d][i].conn = c => d = c
        /\ IsPrefix(Reqs(RtSent(c)), pipe.asked[c])
        /\ conn[c].client = "connected" =>
               Reqs(RtSent(c)) \o Reqs(Held(c, "rt")) \o Reqs(pipe.rt[c])
                   \o Reqs(pipe.out[c]) \o Reqs(pipe.fetch[c])
                   = pipe.asked[c]

\* request n of connection c is a fetch
Asked(c, n) == \E i \in 1..Len(pipe.asked[c]) : pipe.asked[c][i] = n

\* the result of request n has gone out on connection c
Answered(c, n) == \E i \in 1..Len(RtSent(c)) : RtSent(c)[i].req = n

\* C33: the result of a Search, FetchArtistAlbums, FetchPlaylistTracks or
\* FetchUserPlaylists action received on a connection is sent exactly once,
\* on that connection and on no other, and the results of one connection go
\* out in the order of its requests: no result is on another connection's
\* side, none is sent twice or out of order, and as long as the client that
\* asked is there, no result is missing and every result does go out.
C33_ResultsOnOwnConnection ==
    /\ []RtRouted
    /\ \A c \in Conns : \A n \in 1..MaxInbox :
           Asked(c, n) ~> (Answered(c, n) \/ conn[c].client = "gone")

----------------------------------------------------------------------------
(* Properties of the subscription *)

\* the step is send_task of c reading one of the three snapshot values
SnapshotRead(c) ==
    /\ conn'[c].hold.some
    /\ conn'[c].hold # conn[c].hold
    /\ conn'[c].hold.val.from = "snapshot"

\* every notification emitted since c subscribed has been relayed on c, is
\* on its way to c's socket or waits in c's buffer, in emission order
NothingMissed(c) ==
    Seqs(BroadcastSent(c)) \o Seqs(Held(c, "broadcast")) \o Seqs(conn[c].rx) =
        [i \in 1..(nseq - conn[c].subAt) |-> conn[c].subAt + i]

Relayed(c, n) ==
    \E i \in 1..Len(BroadcastSent(c)) : BroadcastSent(c)[i].seq = n

\* C32: a new connection subscribes to the hub before it reads the first
\* snapshot value, so that every notification emitted from then on, those
\* emitted after the snapshot values were read among them, waits in its buffer
\* and is relayed on it after the snapshot messages, as long as the buffer
\* does not overflow.
C32_SubscribedBeforeSnapshot ==
    /\ [][\A c \in Conns :
            /\ SnapshotRead(c) =>
                   /\ conn[c].subscribed
                   /\ conn[c].subAt <= nseq
                   /\ Len(BroadcastSent(c)) = 0
            /\ (~conn[c].subscribed /\ conn'[c].subscribed) =>
                   /\ conn[c].send = "spawned"
                   /\ conn'[c].subAt = nseq
                   /\ NothingMissed(c)'
            /\ (/\ conn[c].subscribed
                /\ NothingMissed(c)
                /\ Len(conn[c].rx) + (nseq' - nseq) <= HubCap) =>
                   NothingMissed(c)'
            /\ (Len(BroadcastSent(c)') > Len(BroadcastSent(c))
                   \/ Len(Held(c, "broadcast")') > Len(Held(c, "broadcast"))) =>
                   /\ conn[c].send = "relay"
                   /\ Kinds(SnapshotSent(c)) \in
                          {<<"CurrentTrackList", "Position", "Status">>,
                           <<"CurrentTrackList", "Status">>}
                   /\ \A i, j \in 1..Len(conn'[c].sent) :
                          (/\ conn'[c].sent[i].from = "snapshot"
                           /\ conn'[c].sent[j].from = "broadcast") => i < j]_vars
    /\ \A c \in Conns : \A n \in 1..MaxEmit :
           (conn[c].subscribed /\ conn[c].subAt < n /\ n <= nseq) ~>
               (Relayed(c, n) \/ ~NothingMissed(c))

C32_Witness ==
    \E c \in Conns :
        /\ conn[c].send = "relay"
        /\ NothingMissed(c)
        /\ conn[c].subAt = 0
        /\ Kinds(SnapshotSent(c)) = <<"CurrentTrackList", "Position", "Status">>
        /\ SnapshotSent(c)[1].val.list.queue[0].status = "Unplayed"
        /\ SnapshotSent(c)[3].val.status = "Playing"
        /\ Kinds(BroadcastSent(c)) = <<"Status", "Position", "Status">>
        /\ conn[c].rx = <<>>

----------------------------------------------------------------------------
(* Properties of the UI List and Table *)

\* the selection of a non-empty List points at one of its items
SelectionInRange(l) ==
    (l.items # <<>> /\ l.selected.some) => l.selected.val < Len(l.items)

\* C35: after any sequence of new, set_items, next and previous, whenever the
\* List is non-empty and an item is selected, the selected index is smaller
\* than the number of items: new leaves such a List, and set_items, next and
\* previous called on such a List leave such a List (select, which is none of
\* the four calls, is free to set any index).
C35_SelectionInRange ==
    /\ SelectionInRange(ui.list)
    /\ [][(/\ last'.op \in {"list_set_items", "list_next", "list_previous"}
           /\ SelectionInRange(ui.list))
              => SelectionInRange(ui'.list)]_vars

\* next() from selection `was` over `len` items to selection `now`
NextSaturates(was, now, len) ==
    /\ now.some /\ now.val >= 0
    /\ ~was.some => now = Some(0)
    /\ len = 0 => now = Some(0)
    /\ (was.some /\ len > 0 /\ was.val = len - 1) => now = Some(len - 1)
    /\ (was.some /\ len > 0) => now.val >= Min(was.val, len - 1)
    /\ (was.some /\ len > 0) => now.val <= Min(was.val + 1, len - 1)

\* previous() from selection `was` over `len` items to selection `now`
PreviousSaturates(was, now, len) ==
    /\ now.some /\ now.val >= 0
    /\ ~was.some => now = Some(0)
    /\ len = 0 => now = Some(0)
    /\ (was.some /\ was.val = 0) => now = Some(0)
    /\ was.some => now.val <= was.val
    /\ (was.some /\ len > 0 /\ was.val > 0) => now.val = was.val - 1

\* C36: next() and previous() of the List and of the Table saturate and never
\* wrap around: next() on the last item keeps the last item, previous() on
\* index 0 keeps index 0, with no selection either call selects index 0, and
\* on an empty list both select index 0 without underflow.
C36_NextPreviousSaturate ==
    [][/\ last'.op = "list_next"
           => NextSaturates(ui.list.selected, ui'.list.selected,
                            Len(ui.list.items))
       /\ last'.op = "list_previous"
           => PreviousSaturates(ui.list.selected, ui'.list.selected,
                                Len(ui.list.items))
       /\ last'.op = "table_next"
           => NextSaturates(ui.table.selected, ui'.table.selected,
                            Len(ui.table.rows))
       /\ last'.op = "table_previous"
           => PreviousSaturates(ui.table.selected, ui'.table.selected,
                                Len(ui.table.rows))]_vars

\* next() was called on the last of several items and the last item is still
\* selected, while the Table had previous() called on its first row before
C36_Witness ==
    /\ last.op = "list_next"
    /\ Len(ui.list.items) = MaxItems
    /\ last.was = Some(MaxItems - 1)
    /\ ui.list.selected = Some(MaxItems - 1)
    /\ ui.table.rows # <<>>
    /\ ui.table.selected = Some(0)

----------------------------------------------------------------------------
(* Properties of the parents' count and of the TrackListType conversions *)

\* C34: after set_album(a) followed by set_playlist(p) on the same TrackList
\* both parents are set, list_type is Playlist, and total() still returns
\* a.total_tracks rather than p.tracks_count.
C34_TotalOfAlbumUnderPlaylistType ==
    [][(last.op = "set_album" /\ last'.op = "set_playlist") =>
           /\ tl'.album = Some(last.album)
           /\ tl'.playlist = Some(last'.playlist)
           /\ tl'.list_type = "Playlist"
           /\ total(tl') = last.album.total_tracks
           /\ total(tl') # last'.playlist.tracks_count]_vars

C34_Witness ==
    /\ last.op = "set_playlist"
    /\ last.after = "set_album"
    /\ tl.album.some /\ tl.playlist.some
    /\ tl.list_type = "Playlist"
    /\ total(tl) = tl.album.val.total_tracks
    /\ total(tl) # tl.playlist.val.tracks_count

\* C37: for every TrackListType t, the display string of t converts back to
\* t with From<&str>, and every string other than "album", "playlist" and
\* "track" converts to Unknown.
C37_DisplayFromRoundTrip ==
    /\ last.op = "display_from" => last.res = last.list_type
    /\ (last.op = "from"
           /\ last.tracklist_type \notin {"album", "playlist", "track"})
          => last.res = "Unknown"

C37_Witness ==
    /\ last.op = "display_from"
    /\ last.list_type = "Playlist"
    /\ last.via = "playlist"
    /\ last.res = "Playlist"

====
